---- MODULE Spec2Model ----
(***************************************************************************)
(* Model of the command/orchestration module of node-red-contrib-sonos-plus *)
(* (src/src/Sonos-Commands.js): playGroupNotification, createGroupSnapshot, *)
(* restoreGroupSnapshot and executeActionV6, together with the players they *)
(* talk to.                                                                 *)
(*                                                                          *)
(* Conventions                                                              *)
(*  - members are numbered 1..members; member 1 is the JavaScript index 0,  *)
(*    the coordinator.                                                      *)
(*  - a URI or a piece of metadata is a sequence of tokens; a token stands  *)
(*    for a run of characters, so that String.includes and the character    *)
(*    replacement of encodeXml work on tokens.                              *)
(*  - a duration 'h:mm:ss' is the tuple <<h, m, s>>; the empty tuple is a   *)
(*    value the player did not report.                                      *)
(*  - every request to a player either succeeds or fails; a failing request *)
(*    leaves the player unchanged and rejects the awaited promise.          *)
(***************************************************************************)
EXTENDS Integers, Sequences, FiniteSets, TLC

\* ------------------------------------------------------------------ bounds
MaxMembers == 2
MaxItems == 2
MaxSwitches == 3
MaxMessages == 2

\* ------------------------------------------------------- program constants
coordinatorIndex == 1
joinerIndex == 2
WAIT_ADJUSTMENT == 2000
NoVolume == -1

\* the session-bound marker of line 183 / 204
VliMarker == "x-sonos-vli"

ZeroDuration == <<0, 0, 0>>
NoDuration == <<>>
NoMetadata == <<>>

\* ----------------------------------------------------------- value domains
Volumes == {0, 20}
VolumeOptions == {NoVolume, 30}
PlayStates == {"playing", "transitioning", "stopped"}

OriginalUris ==
  { <<"x-rincon-queue:", "RINCON_A", "#0">>,
    <<VliMarker, ":", "RINCON_A", ":2,spotify">> }
OriginalMetadata == <<"<", "DIDL-Lite", ">", "queue", "<", "/DIDL-Lite", ">">>
NotificationUris ==
  { <<"http://nas/ding.mp3?v=1", "&", "t=2">>,
    <<VliMarker, ":", "RINCON_B", ":1,clip">> }
FirstClip == <<"http://nas/ding.mp3">>
SecondClip == <<"http://nas/dong.mp3">>
NotificationMetadata == <<"<", "DIDL-Lite", ">", "clip", "<", "/DIDL-Lite", ">">>
JoinerUri == <<"x-rincon:", "RINCON_A">>

RelTimes == {NoDuration, ZeroDuration, <<0, 0, 42>>}
TrackDurations == {ZeroDuration, <<0, 3, 0>>}
ClipDurations == {NoDuration, <<0, 1, 4>>}
ExplicitDuration == <<0, 0, 5>>

\* ------------------------------------------------------------------ helpers
\* String.prototype.includes on token sequences
Includes(s, token) == \E i \in DOMAIN s : s[i] = token

\* JavaScript truthiness of a string value: only the missing/empty one is falsy
Truthy(d) == d # <<>>

EncodeChar(c) ==
  CASE c = "<" -> "&lt;"
    [] c = ">" -> "&gt;"
    [] c = "&" -> "&amp;"
    [] c = "'" -> "&apos;"
    [] c = "\"" -> "&quot;"
    [] OTHER -> c

\* encodeXml (Soap.js): replaces each of < > & ' " by its entity
encodeXml(xmlData) == [i \in DOMAIN xmlData |-> EncodeChar(xmlData[i])]

DecodeChar(c) ==
  CASE c = "&lt;" -> "<"
    [] c = "&gt;" -> ">"
    [] c = "&amp;" -> "&"
    [] c = "&apos;" -> "'"
    [] c = "&quot;" -> "\""
    [] OTHER -> c

\* what the player's XML parser makes of an argument of the SOAP body
PlayerDecode(x) == [i \in DOMAIN x |-> DecodeChar(x[i])]

\* Helper.hhmmss2msec
hhmmss2msec(d) == ((d[1] * 60 + d[2]) * 60 + d[3]) * 1000

\* GenerateMetadata of the sonos package: no metadata for a plain URI
GenerateMetadata(uri) == NoMetadata

\* ------------------------------------------------- action template registry
\* an endpoint is its path split at '/': '/MediaRenderer/AVTransport/Control'
AVTransportEndpoint == <<"", "MediaRenderer", "AVTransport", "Control">>
ZoneGroupTopologyEndpoint == <<"", "ZoneGroupTopology", "Control">>
UnknownEndpoint == <<"", "MediaRenderer", "Nowhere", "Control">>

\* Db-ActionsV6.json, restricted to the templates used here
ACTIONS_TEMPLATESV6 ==
  (AVTransportEndpoint :>
     ( "SetAVTransportURI" :>
         [inArgs |-> <<"InstanceID", "CurrentURI", "CurrentURIMetaData">>,
          outArgs |-> <<>>]
       @@ "Play" :>
         [inArgs |-> <<"InstanceID", "Speed">>, outArgs |-> <<>>]
       @@ "GetTransportInfo" :>
         [inArgs |-> <<"InstanceID">>,
          outArgs |-> <<"CurrentTransportState", "CurrentTransportStatus",
                        "CurrentSpeed">>]
       @@ "GetCurrentTransportActions" :>
         [inArgs |-> <<"InstanceID">>, outArgs |-> <<"Actions">>] ))
  @@
  (ZoneGroupTopologyEndpoint :>
     ( "GetZoneGroupState" :>
         [inArgs |-> <<>>, outArgs |-> <<"ZoneGroupState">>] ))

Range(s) == {s[i] : i \in DOMAIN s}

\* Helper.isValidProperty for a path of one name: the property is present
isValidProperty(obj, property) == property \in DOMAIN obj

\* lines 712-715: the service name is the second last segment of the endpoint
ServiceNameOf(endpoint) == endpoint[Len(endpoint) - 1]

\* line 758
ExpectedResponseValue(serviceName) ==
  <<"urn:schemas-upnp-org:service:", serviceName, ":1">>

\* the first name of inArgs that actionInArgs lacks, 0 if there is none
FirstMissing(names, obj) ==
  IF \A i \in DOMAIN names : isValidProperty(obj, names[i]) THEN 0
  ELSE CHOOSE i \in DOMAIN names :
         /\ ~isValidProperty(obj, names[i])
         /\ \A j \in 1..(i - 1) : isValidProperty(obj, names[j])

Raise(error, wasSent) ==
  [err |-> error, sent |-> wasSent, value |-> [type |-> "none"]]
Return(v, wasSent) == [err |-> "none", sent |-> wasSent, value |-> v]

Restrict(f, keys) == [k \in (DOMAIN f) \cap keys |-> f[k]]

\* a single expected output is returned inside the output map
DecodeResponseNoUnwrap(actionName, serviceName, outArgs, response) ==
  IF response.kind = "throw" THEN Raise("sendToPlayer", TRUE)
  ELSE IF ~response.hasStatusCode THEN Raise("status code is invalid", TRUE)
  ELSE IF response.statusCode # 200 THEN Raise("status code is not 200", TRUE)
  ELSE IF ~response.hasBody THEN Raise("body is invalid", TRUE)
  ELSE IF ~response.wellFormed THEN Raise("xml2js", TRUE)
  ELSE IF response.node # actionName THEN Raise("body is invalid", TRUE)
  ELSE IF ~isValidProperty(response.result, "xmlns:u")
    THEN Raise("xmlns:u property is missing", TRUE)
  ELSE IF response.result["xmlns:u"] # ExpectedResponseValue(serviceName)
    THEN Raise("unexpected response", TRUE)
  ELSE IF Len(outArgs) = 0 THEN Return([type |-> "boolean", v |-> TRUE], TRUE)
  ELSE IF FirstMissing(outArgs, response.result) # 0
    THEN Raise("response property is missing", TRUE)
  ELSE Return([type |-> "object",
               v |-> Restrict(response.result,
                              (DOMAIN response.result) \ {"xmlns:u"})], TRUE)

\* the namespace of the response node is not compared with the service
DecodeResponseAnyNamespace(actionName, serviceName, outArgs, response) ==
  IF response.kind = "throw" THEN Raise("sendToPlayer", TRUE)
  ELSE IF ~response.hasStatusCode THEN Raise("status code is invalid", TRUE)
  ELSE IF response.statusCode # 200 THEN Raise("status code is not 200", TRUE)
  ELSE IF ~response.hasBody THEN Raise("body is invalid", TRUE)
  ELSE IF ~response.wellFormed THEN Raise("xml2js", TRUE)
  ELSE IF response.node # actionName THEN Raise("body is invalid", TRUE)
  ELSE IF ~isValidProperty(response.result, "xmlns:u")
    THEN Raise("xmlns:u property is missing", TRUE)
  ELSE IF Len(outArgs) = 0 THEN Return([type |-> "boolean", v |-> TRUE], TRUE)
  ELSE IF FirstMissing(outArgs, response.result) # 0
    THEN Raise("response property is missing", TRUE)
  ELSE IF Len(outArgs) = 1
    THEN Return([type |-> "scalar", v |-> response.result[outArgs[1]]], TRUE)
  ELSE Return([type |-> "object",
               v |-> Restrict(response.result,
                              (DOMAIN response.result) \ {"xmlns:u"})], TRUE)

\* lines 719-779: what executeActionV6 makes of the reply of sendToPlayerV1
DecodeResponse(actionName, serviceName, outArgs, response) ==
  IF response.kind = "throw" THEN Raise("sendToPlayer", TRUE)
  ELSE IF ~response.hasStatusCode THEN Raise("status code is invalid", TRUE)
  ELSE IF response.statusCode # 200 THEN Raise("status code is not 200", TRUE)
  ELSE IF ~response.hasBody THEN Raise("body is invalid", TRUE)
  ELSE IF ~response.wellFormed THEN Raise("xml2js", TRUE)
  ELSE IF response.node # actionName THEN Raise("body is invalid", TRUE)
  ELSE IF ~isValidProperty(response.result, "xmlns:u")
    THEN Raise("xmlns:u property is missing", TRUE)
  ELSE IF response.result["xmlns:u"] # ExpectedResponseValue(serviceName)
    THEN Raise("unexpected response", TRUE)
  ELSE IF Len(outArgs) = 0 THEN Return([type |-> "boolean", v |-> TRUE], TRUE)
  ELSE IF FirstMissing(outArgs, response.result) # 0
    THEN Raise("response property is missing", TRUE)
  ELSE IF Len(outArgs) = 1
    THEN Return([type |-> "scalar", v |-> response.result[outArgs[1]]], TRUE)
  ELSE Return([type |-> "object",
               v |-> Restrict(response.result,
                              (DOMAIN response.result) \ {"xmlns:u"})], TRUE)

\* the input arguments are not checked
ValidateRequestNoArgumentCheck(endpoint, actionName, actionInArgs) ==
  IF endpoint \notin DOMAIN ACTIONS_TEMPLATESV6 THEN "TypeError"
  ELSE IF actionName \notin DOMAIN ACTIONS_TEMPLATESV6[endpoint]
    THEN "TypeError"
  ELSE "none"

\* an unknown template is reported like a missing argument
ValidateRequestUnknownAsMissing(endpoint, actionName, actionInArgs) ==
  IF endpoint \notin DOMAIN ACTIONS_TEMPLATESV6 THEN "property is missing"
  ELSE IF actionName \notin DOMAIN ACTIONS_TEMPLATESV6[endpoint]
    THEN "property is missing"
  ELSE IF FirstMissing(ACTIONS_TEMPLATESV6[endpoint][actionName].inArgs,
                       actionInArgs) # 0
    THEN "property is missing"
  ELSE "none"

\* lines 697-710: template lookup and the check of the input arguments;
\* "none" when the request may be sent
ValidateRequest(endpoint, actionName, actionInArgs) ==
  IF endpoint \notin DOMAIN ACTIONS_TEMPLATESV6 THEN "TypeError"
  ELSE IF actionName \notin DOMAIN ACTIONS_TEMPLATESV6[endpoint]
    THEN "TypeError"
  ELSE IF FirstMissing(ACTIONS_TEMPLATESV6[endpoint][actionName].inArgs,
                       actionInArgs) # 0
    THEN "property is missing"
  ELSE "none"

\* executeActionV6, given the reply sendToPlayerV1 would produce
executeActionV6(endpoint, actionName, actionInArgs, response) ==
  LET problem == ValidateRequest(endpoint, actionName, actionInArgs) IN
  IF problem # "none" THEN Raise(problem, FALSE)
  ELSE DecodeResponse(actionName, ServiceNameOf(endpoint),
                      ACTIONS_TEMPLATESV6[endpoint][actionName].outArgs,
                      response)

\* ------------------------------------------------------------------ replies
ThrowReply == [kind |-> "throw"]

Reply(hasStatus, status, hasB, wf, nodeName, res) ==
  [kind |-> "response", hasStatusCode |-> hasStatus, statusCode |-> status,
   hasBody |-> hasB, wellFormed |-> wf, node |-> nodeName, result |-> res]

\* the reply of a conforming player to a request it accepted
GoodReply(endpoint, actionName) ==
  LET outs == Range(ACTIONS_TEMPLATESV6[endpoint][actionName].outArgs) IN
  Reply(TRUE, 200, TRUE, TRUE, actionName,
        ("xmlns:u" :> ExpectedResponseValue(ServiceNameOf(endpoint)))
        @@ [k \in outs |-> "value"])

\* ----------------------------------------------------------------- topology
\* the largest household: players over all groups
MaxPlayers == 3

ZoneNames == {"Kitchen", "Living"}

\* the attribute Invisible of a ZoneGroupMember: absent, or '1'
InvisibleFlags == {"absent", "1"}

NoHostname == <<>>
NoUuid == <<>>
NoName == ""

\* player 0 is a player that no group lists
UuidOf(p) == <<"RINCON", p>>
HostnameOf(p) == <<"192.168.178", p>>
LocationOf(p) == <<"http:", HostnameOf(p), "1400", "xml/device_description.xml">>

\* new URL(location).hostname
hostname(location) == location[2]

\* JavaScript !value for an attribute value
Not(value) == value \in {"absent", ""}

\* Helper.isTruthyAndNotEmptyString for a string argument
isTruthyAndNotEmptyString(value) == value # ""

\* group.host as getAllGroups of node-sonos fills it in: the hostname of the
\* member whose UUID is the Coordinator of the group, undefined without one
GroupHost(coordinator, zoneGroupMember) ==
  IF \E i \in DOMAIN zoneGroupMember : zoneGroupMember[i].UUID = coordinator
  THEN hostname(zoneGroupMember[
         CHOOSE i \in DOMAIN zoneGroupMember :
           zoneGroupMember[i].UUID = coordinator].Location)
  ELSE NoHostname

\* players 1..n are numbered in scan order; cut[p] says that a new group
\* starts after player p
GroupIndexOf(cut, p) == 1 + Cardinality({i \in 1..(p - 1) : cut[i]})

PlayersOf(cut, n, g) == {p \in 1..n : GroupIndexOf(cut, p) = g}

FirstOf(cut, n, g) ==
  CHOOSE p \in PlayersOf(cut, n, g) : \A q \in PlayersOf(cut, n, g) : p <= q

\* one group of the answer of getAllGroups; coordinator 0 names a player the
\* group does not list, coordinator k the k-th member
ZoneGroup(cut, n, names, flags, coordinator, g) ==
  LET first == FirstOf(cut, n, g)
      zoneGroupMember ==
        [k \in 1..Cardinality(PlayersOf(cut, n, g)) |->
           [UUID |-> UuidOf(first + k - 1),
            ZoneName |-> names[first + k - 1],
            Location |-> LocationOf(first + k - 1),
            Invisible |-> flags[first + k - 1]]]
      uuid == IF coordinator = 0 THEN UuidOf(0)
              ELSE UuidOf(first + coordinator - 1)
  IN [ID |-> <<"group", g>>,
      Name |-> names[first],
      Coordinator |-> uuid,
      host |-> GroupHost(uuid, zoneGroupMember),
      ZoneGroupMember |-> zoneGroupMember]

\* every household of n players
Households(n) ==
  UNION {
    LET groups == GroupIndexOf(cut, n) IN
    { [g \in 1..groups |->
         ZoneGroup(cut, n, names, flags, coordinators[g], g)] :
        names \in [1..n -> ZoneNames],
        flags \in [1..n -> InvisibleFlags],
        coordinators \in
          {c \in [1..groups -> 0..n] :
             \A g \in 1..groups : c[g] <= Cardinality(PlayersOf(cut, n, g))} }
    : cut \in [1..(n - 1) -> BOOLEAN] }

\* the member is matched although it is invisible
MatchesInvisibleToo(member, searchByName, name, host) ==
  IF searchByName THEN member.ZoneName = name
  ELSE hostname(member.Location) = host

\* lines 437-454: the test of one member
Matches(member, searchByName, name, host) ==
  LET visible == Not(member.Invisible) IN
  IF searchByName THEN member.ZoneName = name /\ visible
  ELSE hostname(member.Location) = host /\ visible

RECURSIVE FirstMatch(_, _, _, _, _)
\* lines 435-457, the inner loop: the index of the first member from
\* memberIndex on that matches, 0 if there is none
FirstMatch(zoneGroupMember, memberIndex, searchByName, name, host) ==
  IF memberIndex > Len(zoneGroupMember) THEN 0
  ELSE IF Matches(zoneGroupMember[memberIndex], searchByName, name, host)
    THEN memberIndex
  ELSE FirstMatch(zoneGroupMember, memberIndex + 1, searchByName, name, host)

RECURSIVE FindPlayer(_, _, _, _, _)
\* lines 433-458, the outer loop; playerGroupIndex 0 stands for -1
FindPlayer(groups, groupIndex, searchByName, name, host) ==
  IF groupIndex > Len(groups)
  THEN [playerGroupIndex |-> 0, usedPlayerHostname |-> NoHostname]
  ELSE LET memberIndex == FirstMatch(groups[groupIndex].ZoneGroupMember, 1,
                                     searchByName, name, host) IN
       IF memberIndex > 0
       THEN [playerGroupIndex |-> groupIndex,
             usedPlayerHostname |->
               hostname(groups[groupIndex].ZoneGroupMember[memberIndex]
                          .Location)]
       ELSE FindPlayer(groups, groupIndex + 1, searchByName, name, host)

\* lines 811-814: the member property invisible, as a string
InvisibleOf(member) ==
  IF ~Not(member.Invisible)
  THEN IF member.Invisible = "1" THEN "true" ELSE "false"
  ELSE "false"

RECURSIVE SortLoop(_, _, _, _)
\* lines 808-834: members other than the one at the group host are appended,
\* the one at the group host completes the first entry
SortLoop(sorted, zoneGroupMember, memberIndex, coordinatorUrlHostname) ==
  IF memberIndex > Len(zoneGroupMember) THEN sorted
  ELSE LET member == zoneGroupMember[memberIndex] IN
       SortLoop(
         IF hostname(member.Location) # coordinatorUrlHostname
         THEN Append(sorted, [urlHostname |-> hostname(member.Location),
                              sonosName |-> member.ZoneName,
                              uuid |-> member.UUID,
                              invisible |-> InvisibleOf(member)])
         ELSE [sorted EXCEPT ![1].sonosName = member.ZoneName,
                             ![1].uuid = member.UUID,
                             ![1].invisible = InvisibleOf(member)],
         zoneGroupMember, memberIndex + 1, coordinatorUrlHostname)

\* lines 798-836; a member is reduced to urlHostname, sonosName, uuid and
\* invisible
sortedGroupArray(groups, groupIndex) ==
  SortLoop(<<[urlHostname |-> groups[groupIndex].host,
              sonosName |-> NoName, uuid |-> NoUuid,
              invisible |-> "undefined"]>>,
           groups[groupIndex].ZoneGroupMember, 1, groups[groupIndex].host)

\* line 468, members.findIndex(...): the first index of a member at the
\* hostname, 0 for -1
findIndex(sorted, usedPlayerHostname) ==
  IF \E i \in DOMAIN sorted : sorted[i].urlHostname = usedPlayerHostname
  THEN CHOOSE i \in DOMAIN sorted :
         /\ sorted[i].urlHostname = usedPlayerHostname
         /\ \A j \in 1..(i - 1) : sorted[j].urlHostname # usedPlayerHostname
  ELSE 0

\* every member is kept, visible or not
KeepAll(member) == TRUE

\* line 464: the filter on the sorted members
KeepVisible(member) == member.invisible = "false"

\* lines 415-471, given what getAllGroups came back with
getGroupMemberDataV2(data, player, name) ==
  LET searchByName == isTruthyAndNotEmptyString(name) IN
  IF data.kind = "throw" THEN Raise("getAllGroups", FALSE)
  ELSE IF data.kind = "undefined"
    THEN Raise("all groups data undefined", FALSE)
  ELSE IF data.kind # "array"
    THEN Raise("all groups data is not array", FALSE)
  ELSE LET found == FindPlayer(data.groups, 1, searchByName, name,
                               player.host) IN
       IF found.playerGroupIndex = 0
       THEN Raise("could not find given player", FALSE)
       ELSE LET filtered ==
                  SelectSeq(sortedGroupArray(data.groups,
                                             found.playerGroupIndex),
                            KeepVisible)
            IN Return([type |-> "object",
                       v |-> [playerIndex |->
                                findIndex(filtered, found.usedPlayerHostname),
                              members |-> filtered,
                              groupId |->
                                data.groups[found.playerGroupIndex].ID,
                              groupName |->
                                data.groups[found.playerGroupIndex].Name]],
                      FALSE)

\* line 506: the flag visible of getAllPlayerList, which takes over the
\* value of Invisible when the member has one
VisibleInList(member) ==
  IF member.Invisible # "absent" THEN ~Not(member.Invisible) ELSE TRUE

RECURSIVE PlayerListLoop(_, _, _, _)
\* lines 502-519: both loops; the group index counts from 1
PlayerListLoop(groups, groupIndex, memberIndex, playerList) ==
  IF groupIndex > Len(groups) THEN playerList
  ELSE IF memberIndex > Len(groups[groupIndex].ZoneGroupMember)
    THEN PlayerListLoop(groups, groupIndex + 1, 1, playerList)
  ELSE LET member == groups[groupIndex].ZoneGroupMember[memberIndex] IN
       PlayerListLoop(
         groups, groupIndex, memberIndex + 1,
         IF VisibleInList(member)
         THEN Append(playerList,
                     [sonosName |-> member.ZoneName,
                      urlHostname |-> hostname(member.Location),
                      uuid |-> member.UUID,
                      isCoordinator |->
                        (groups[groupIndex].Coordinator = member.UUID),
                      groupIndex |-> groupIndex])
         ELSE playerList)

\* lines 481-521, given what getAllGroups came back with
getAllPlayerList(data) ==
  IF data.kind = "throw" THEN Raise("getAllGroups", FALSE)
  ELSE IF data.kind = "undefined"
    THEN Raise("all groups data undefined", FALSE)
  ELSE IF data.kind # "array"
    THEN Raise("all groups data is not array", FALSE)
  ELSE Return([type |-> "object",
               v |-> PlayerListLoop(data.groups, 1, 1, <<>>)], FALSE)

\* ------------------------------------------------------------------ strings
\* a string that the code searches or cuts is a sequence of characters (data
\* may be shortened to one token per word), the empty string is <<>>

\* Helper.isTruthyAndNotEmptyString for such a string; undefined is <<>> too
NotEmptyText(text) == text # <<>>

\* String.prototype.indexOf: the first position, counted from 0, or -1
indexOf(text, searched) ==
  LET hits == {i \in 0..(Len(text) - Len(searched)) :
                 SubSeq(text, i + 1, i + Len(searched)) = searched}
  IN IF hits = {} THEN -1
     ELSE CHOOSE i \in hits : \A j \in hits : i <= j

\* String.prototype.substring for 0 <= from <= to
substring(text, from, to) ==
  SubSeq(text, from + 1, IF to > Len(text) THEN Len(text) ELSE to)

\* '?sid=' and '&flags='
SidMarker == <<"?", "s", "i", "d", "=">>
FlagsMarker == <<"&", "f", "l", "a", "g", "s", "=">>

\* '$sid='.length, line 954
SidMarkerLength == 5

\* lines 951-961
getMusicServiceId(xuri) ==
  IF NotEmptyText(xuri)
  THEN LET positionStart == indexOf(xuri, SidMarker) + SidMarkerLength
           positionEnd == indexOf(xuri, FlagsMarker)
       IN IF positionStart > 1 /\ positionEnd > positionStart
          THEN substring(xuri, positionStart, positionEnd)
          ELSE <<>>
  ELSE <<>>

\* URIs with and without the two markers, in both orders
MarkedUris ==
  LET UriHeads == {<<>>, <<"x">>, <<"x", "-", "s">>,
                   <<"x", "-", "s", "o", ":">>,
                   <<"x", "-", "s", "o", "n", "o", "s", ":", "s", "1">>}
      UriSids == {<<>>, <<"2", "0", "1">>}
      UriTails == {<<>>, <<"8">>}
  IN {head \o sidPart \o flagsPart :
        head \in UriHeads,
        sidPart \in {<<>>} \cup {SidMarker \o sid : sid \in UriSids},
        flagsPart \in {<<>>} \cup {FlagsMarker \o tail : tail \in UriTails}}
     \cup
     {head \o FlagsMarker \o tail \o SidMarker \o sid :
        head \in UriHeads, tail \in UriTails, sid \in UriSids}

\* --------------------------------------------------------------- DIDL-Lite
\* the music services of Db-MusicServices.json: service id and name
MUSIC_SERVICES ==
  <<[sid |-> <<"2", "0", "1">>, name |-> <<"Amazon Music">>],
    [sid |-> <<"2", "5", "4">>, name |-> <<"TuneIn">>]>>

\* lines 970-982
getMusicServiceName(sid) ==
  IF sid # <<>> /\ \E i \in DOMAIN MUSIC_SERVICES : MUSIC_SERVICES[i].sid = sid
  THEN LET index == CHOOSE i \in DOMAIN MUSIC_SERVICES :
                      /\ MUSIC_SERVICES[i].sid = sid
                      /\ \A j \in 1..(i - 1) : MUSIC_SERVICES[j].sid # sid
       IN MUSIC_SERVICES[index].name
  ELSE <<>>

\* '<upnp:class>' and '</upnp:class>'
ClassOpenTag == <<"<", "u", "p", "n", "p", ":", "c", "l", "a", "s", "s", ">">>
ClassCloseTag == <<"<", "/", "u", "p", "n", "p", ":", "c", "l", "a", "s", "s", ">">>

\* lines 1011-1021
getUpnpClass(metadata) ==
  IF NotEmptyText(metadata)
  THEN LET positionStart == indexOf(metadata, ClassOpenTag) + Len(ClassOpenTag)
           positionEnd == indexOf(metadata, ClassCloseTag)
       IN IF positionStart >= 0 /\ positionEnd > positionStart
          THEN substring(metadata, positionStart, positionEnd)
          ELSE <<>>
  ELSE <<>>

\* lines 67-73; a class name is one token
UPNP_CLASSES_STREAM == {<<"object.item.audioItem.audioBroadcast">>}
UPNP_CLASSES_QUEUE ==
  {<<"object.container.album.musicAlbum">>,
   <<"object.container.playlistContainer">>,
   <<"object.item.audioItem.musicTrack">>,
   <<"object.container">>,
   <<"object.container.playlistContainer#playlistItem">>}

\* 'x-sonosapi-stream:'
StreamPrefix == <<"x", "-", "s", "o", "n", "o", "s", "a", "p", "i", "-", "s", "t", "r", "e", "a", "m", ":">>

\* lines 993-1000
getRadioId(xuri) ==
  LET tuneIn == SidMarker \o <<"2", "5", "4">>
  IN IF indexOf(xuri, StreamPrefix) = 0
          /\ indexOf(xuri, Tail(tuneIn)) >= 0
     THEN LET end == indexOf(xuri, tuneIn)
              start == Len(StreamPrefix)
          IN IF end >= start THEN substring(xuri, start, end)
             ELSE substring(xuri, IF end < 0 THEN 0 ELSE end, start)
     ELSE <<>>

\* the nodes of a DIDL-Lite list as xml2js delivers them (mergeAttrs, charkey
\* uriIdentifier): a function from the names of the attributes and children
\* the node has to their values, with title, creator, class, albumArtURI and
\* resMD for dc:title, dc:creator, upnp:class, upnp:albumArtURI and r:resMD;
\* a favourite carries its class in r:resMD
DidlItems ==
  LET Favourite(id, class) ==
        [id |-> <<id>>, title |-> <<"dc:title">>,
         res |-> [uriIdentifier |->
                    StreamPrefix \o <<"s", "1">> \o SidMarker
                      \o <<"2", "5", "4">> \o FlagsMarker \o <<"8">>],
         albumArtURI |-> [array |-> FALSE, v |-> <<"/getaa", "?0">>],
         resMD |-> ClassOpenTag \o class \o ClassCloseTag]
  IN {Favourite("FV:2/1", <<"object.item.audioItem.audioBroadcast">>),
      Favourite("FV:2/2", <<"object.item.audioItem.musicTrack">>),
      Favourite("FV:2/3", <<"object.item.audioItem.audioBook">>),
      [id |-> <<"FV:2/4">>, title |-> <<"dc:title">>,
       resMD |-> <<"<DIDL-Lite>", "</DIDL-Lite>">>],
      [id |-> <<"SQ:5">>, title |-> <<"dc:title">>,
       creator |-> <<"dc:creator">>, res |-> [protocolInfo |-> <<"file">>],
       class |-> <<"object.container.playlistContainer">>,
       albumArtURI |-> [array |-> TRUE,
                        v |-> <<<<"/getaa", "?1">>, <<"/getaa", "?2">>>>]],
      [id |-> <<"SQ:6">>, title |-> <<"dc:title">>,
       albumArtURI |-> [array |-> FALSE, v |-> <<"https://art", "?3">>]],
      [title |-> <<"dc:title">>, class |-> <<"object.container">>],
      [id |-> <<"SQ:8">>, creator |-> <<"dc:creator">>]}

\* the didlXml arguments: undefined, '', text that is no XML, and DIDL-Lite
\* documents of up to MaxItems nodes named item or container
DidlInputs ==
  [kind : {"undefined", "empty", "malformed"}, nodes : {<<>>}]
  \cup
  [kind : {"document"},
   nodes : UNION {[1..n -> [name : {"item", "container"}, item : DidlItems]] :
                    n \in 0..MaxItems}]

\* no input counts as missing
InputNeverMissing(didlXml) == FALSE

\* line 856
InputMissing(didlXml) == didlXml.kind \in {"undefined", "empty"}

\* line 865 with explicitArray false: the object under 'DIDL-Lite' has one
\* property per child name, the child itself if it is the only one of that
\* name and the array of the children of that name, in order, otherwise
parseStringPromise(nodes) ==
  [name \in {nodes[i].name : i \in DOMAIN nodes} |->
     LET Named(node) == node.name = name
         children == SelectSeq(nodes, Named)
     IN IF Len(children) = 1
        THEN [array |-> FALSE, v |-> children[1].item]
        ELSE [array |-> TRUE,
              v |-> [i \in 1..Len(children) |-> children[i].item]]]

\* only an array of nodes is taken
OriginalItemsOfArray(didlJson, itemName) ==
  IF isValidProperty(didlJson, itemName) /\ didlJson[itemName].array
  THEN didlJson[itemName].v
  ELSE <<>>

\* lines 870-884
OriginalItems(didlJson, itemName) ==
  IF isValidProperty(didlJson, itemName)
  THEN LET itemsOrOne == didlJson[itemName]
       IN IF itemsOrOne.array THEN itemsOrOne.v ELSE <<itemsOrOne.v>>
  ELSE <<>>

\* lines 887-938 for an item that has id and dc:title
TransformItem(item) ==
  LET uri == IF isValidProperty(item, "res")
                  /\ isValidProperty(item.res, "uriIdentifier")
             THEN item.res.uriIdentifier ELSE <<>>
      sid == getMusicServiceId(uri)
  IN [id |-> item.id,
      title |-> item.title,
      artist |-> IF isValidProperty(item, "creator") THEN item.creator
                 ELSE <<>>,
      uri |-> uri,
      artUri |-> IF isValidProperty(item, "albumArtURI")
                 THEN IF item.albumArtURI.array
                      THEN IF Len(item.albumArtURI.v) > 0
                           THEN item.albumArtURI.v[1] ELSE <<>>
                      ELSE item.albumArtURI.v
                 ELSE <<>>,
      metadata |-> IF isValidProperty(item, "resMD") THEN item.resMD
                   ELSE <<>>,
      sid |-> sid,
      serviceName |-> getMusicServiceName(sid),
      upnpClass |-> IF isValidProperty(item, "class") THEN item.class
                    ELSE <<>>,
      processingType |-> ""]

\* the items that lack id or dc:title are left out
TransformWellFormed(originalItems) ==
  LET WellFormed(item) ==
        isValidProperty(item, "id") /\ isValidProperty(item, "title")
      kept == SelectSeq(originalItems, WellFormed)
  IN Return([type |-> "array",
             v |-> [i \in 1..Len(kept) |-> TransformItem(kept[i])]], FALSE)

\* lines 886-940: the first item without id or dc:title ends the map
TransformItems(originalItems) ==
  LET malformed == {i \in DOMAIN originalItems :
                      \/ ~isValidProperty(originalItems[i], "id")
                      \/ ~isValidProperty(originalItems[i], "title")}
  IN IF malformed # {}
     THEN LET first == CHOOSE i \in malformed : \A j \in malformed : i <= j
          IN IF ~isValidProperty(originalItems[first], "id")
             THEN Raise("id is missing", FALSE)
             ELSE Raise("title is missing", FALSE)
     ELSE Return([type |-> "array",
                  v |-> [i \in DOMAIN originalItems |->
                           TransformItem(originalItems[i])]], FALSE)

\* lines 855-941
didlXmlToArray(didlXml, itemName) ==
  IF InputMissing(didlXml) THEN Raise("DIDL-Light input is missing", FALSE)
  ELSE IF ~isTruthyAndNotEmptyString(itemName)
  THEN Raise("item name such as container is missing", FALSE)
  ELSE IF didlXml.kind = "malformed" THEN Raise("parseStringPromise", FALSE)
  ELSE TransformItems(OriginalItems(parseStringPromise(didlXml.nodes),
                                    itemName))

\* ------------------------------------------------------------- getMySonosV3
\* the address the player is called at
PlayerUrlOrigin == "http://192.168.178.35:1400"

\* Helper.isValidPropertyNotEmptyString for a path of one name
isValidPropertyNotEmptyString(obj, property) ==
  isValidProperty(obj, property) /\ obj[property] # <<>>

\* lines 555-562 and 618-625
ArtUriOf(item, playerUrlOrigin) ==
  IF isValidPropertyNotEmptyString(item, "artUri")
  THEN IF Head(item.artUri) = "/getaa"
       THEN <<playerUrlOrigin>> \o item.artUri
       ELSE item.artUri
  ELSE <<>>

\* an item without a class is left without handling mode
ProcessingTypeOfClass(upnpClass) ==
  IF upnpClass \in UPNP_CLASSES_STREAM THEN "stream"
  ELSE IF upnpClass \in UPNP_CLASSES_QUEUE THEN "queue"
  ELSE IF upnpClass # <<>> THEN "unsupported"
  ELSE ""

\* lines 572-578
ProcessingTypeOf(upnpClass) ==
  IF upnpClass \in UPNP_CLASSES_STREAM THEN "stream"
  ELSE IF upnpClass \in UPNP_CLASSES_QUEUE THEN "queue"
  ELSE "unsupported"

\* lines 553-581: the callback of the map over the favourites
MapFavourite(item, playerUrlOrigin) ==
  LET upnpClass == IF isValidProperty(item, "metadata")
                   THEN getUpnpClass(item.metadata) ELSE item.upnpClass
  IN [name \in DOMAIN item \cup {"radioId"} |->
        CASE name = "artUri" -> ArtUriOf(item, playerUrlOrigin)
          [] name = "radioId" -> getRadioId(item.uri)
          [] name = "upnpClass" -> upnpClass
          [] name = "processingType" -> ProcessingTypeOf(upnpClass)
          [] OTHER -> item[name]]

\* lines 617-628: the callback of the map over the playlists
MapPlaylist(item, playerUrlOrigin) ==
  [item EXCEPT !.artUri = ArtUriOf(item, playerUrlOrigin),
               !.processingType = "queue"]

\* what a Browse of the ContentDirectory returns for a list of nodes
BrowseResult(nodes, itemName) ==
  [NumberReturned |-> <<ToString(Len(nodes))>>,
   Result |-> [kind |-> "document",
               nodes |-> [i \in DOMAIN nodes |->
                            [name |-> itemName, item |-> nodes[i]]]]]

\* ------------------------------------------------------------------ Soap.js
\* the error codes of Db-Soap-Errorcodes.json: the general UPnP codes and the
\* codes of single services, each with its message
SOAP_ERRORS ==
  [UPNP |-> ("402" :> "Invalid Args") @@ ("501" :> "Action Failed"),
   AVTRANSPORT |-> ("701" :> "Transition not available"),
   RENDERINGCONTROL |-> ("702" :> "Invalid InstanceID")]

\* Helper.getErrorCodeFromEnvelope: the errorCode of the fault in the body
getErrorCodeFromEnvelope(data) == data.errorCode

\* Helper.getErrorMessageV1: the message the general list or the list of the
\* service has for the code
getErrorMessageV1(errorCode, upnpList, serviceErrorList) ==
  IF errorCode \in DOMAIN upnpList THEN upnpList[errorCode]
  ELSE IF errorCode \in DOMAIN serviceErrorList
  THEN serviceErrorList[errorCode]
  ELSE "unknown error"

\* lines 36-55: the SOAPAction header and the envelope around the arguments
SoapMessage(serviceName, actionName, args) ==
  LET Element(arg) == <<"<", arg.key, ">", arg.value, "</", arg.key, ">">>
      Elements[i \in 0..Len(args)] ==
        IF i = 0 THEN <<>> ELSE Elements[i - 1] \o Element(args[i])
  IN [SOAPAction |-> <<"\"urn:schemas-upnp-org:service:", serviceName, ":1#",
                       actionName, "\"">>,
      data |-> <<"<s:Envelope>", "<s:Body>", "<u:", actionName,
                 " xmlns:u=\"urn:schemas-upnp-org:service:", serviceName,
                 ":1\">">>
               \o Elements[Len(args)]
               \o <<"</u:", actionName, ">", "</s:Body>", "</s:Envelope>">>]

\* the rejections of the request: axios rejects without response when the
\* player is not reached and with the response for a status outside 2xx
RequestErrors ==
  {[code |-> "ECONNABORTED", message |-> <<"timeout of 0ms exceeded">>],
   [code |-> "ECONNREFUSED", message |-> <<"connect ECONNREFUSED">>],
   [response |-> [status |-> "500", data |-> [errorCode |-> "402"]]],
   [message |-> <<"Request failed with status code ", "404">>,
    response |-> [status |-> "404", data |-> [errorCode |-> ""]]]}
  \cup
  {[message |-> <<"Request failed with status code ", "500">>,
    response |-> [status |-> "500", data |-> [errorCode |-> errorCode]]] :
     errorCode \in {"402", "701", "999"}}

\* every rejection is thrown on as it is
CatchRethrows(error, serviceName) ==
  [err |-> "request", sent |-> TRUE,
   value |-> [type |-> "thrown", error |-> error]]

\* lines 64-97: the catch of the request
CatchRequestError(error, serviceName) ==
  LET toUpperCase == [AVTransport |-> "AVTRANSPORT",
                      RenderingControl |-> "RENDERINGCONTROL",
                      ZoneGroupTopology |-> "ZONEGROUPTOPOLOGY"]
      NewError(text, properties) ==
        [err |-> text, sent |-> TRUE,
         value |-> [type |-> "new Error"] @@ properties]
  IN IF isValidProperty(error, "response")
     THEN IF isValidProperty(error, "message")
          THEN IF error.message[1] = "Request failed with status code "
                    /\ Len(error.message) > 1 /\ error.message[2] = "500"
               THEN LET errorCode ==
                          getErrorCodeFromEnvelope(error.response.data)
                        serviceErrorList ==
                          IF isValidProperty(SOAP_ERRORS,
                                             toUpperCase[serviceName])
                          THEN SOAP_ERRORS[toUpperCase[serviceName]]
                          ELSE <<>>
                    IN NewError("statusCode 500",
                                [upnpErrorCode |-> errorCode,
                                 upnpErrorMessage |->
                                   getErrorMessageV1(errorCode,
                                                     SOAP_ERRORS.UPNP,
                                                     serviceErrorList)])
               ELSE NewError("error.message is not code 500",
                             [error |-> error])
          ELSE NewError("error.message is missing", [error |-> error])
     ELSE [err |-> "request", sent |-> TRUE,
           value |-> [type |-> "thrown", error |-> error]]

\* -------------------------------------------------------------------- state
VARIABLES
  op,                  \* the operation this run performs
  pc,                  \* the await point the operation has reached
  members,             \* membersAsPlayerPlus.length
  options,             \* the options of playGroupNotification
  volume,              \* player state: volume of each member
  muted,               \* player state: mute state of each member
  transport,           \* player state: AVTransport of each member
  snapshot,            \* the local snapshot of playGroupNotification
  index,               \* the loop variable of the member loops
  waitInMilliseconds,  \* the delay handed to setTimeout, -1 before that
  calls,               \* every request issued to a player so far, in order,
                       \* each with the value it carried or was answered with
  request,             \* the arguments of executeActionV6
  result,              \* what executeActionV6 returned or raised
  posts,               \* the number of calls of sendToPlayerV1
  response,            \* what sendToPlayerV1 came back with
  before,              \* the player state when the operation was called
  allGroupsData,       \* what getAllGroups returns
  sonosPlayer,         \* the player getGroupMemberDataV2 is called on
  playerName,          \* the name getGroupMemberDataV2 is called with
  input,               \* the arguments of a function without player state
  suspended,           \* a second call of playGroupNotification that waits
                       \* at one of its awaits while this one runs
  nodeState            \* the My Sonos node: its status, its input handler,
                       \* the messages it got and the request it left behind

vars == <<op, pc, members, options, volume, muted, transport, snapshot,
          index, waitInMilliseconds, calls, request, result, posts,
          response, before, allGroupsData, sonosPlayer, playerName, input, suspended, nodeState>>

topologyVars == <<allGroupsData, sonosPlayer, playerName>>

Members == 1..members

\* the AVTransport state a coordinator can be in before a call
CoordinatorTransports ==
  { t \in [uri : OriginalUris, meta : {OriginalMetadata}, state : PlayStates,
           nrTracks : {1, 2}, track : {1, 2}, relTime : RelTimes,
           trackDuration : TrackDurations] : t.track <= t.nrTracks }

JoinerTransport ==
  [uri |-> JoinerUri, meta |-> NoMetadata, state |-> "playing", nrTracks |-> 1,
   track |-> 1, relTime |-> ZeroDuration, trackDuration |-> ZeroDuration]

NotificationOptions ==
  [uri : NotificationUris, hasMetadata : BOOLEAN,
   metadata : {NotificationMetadata}, volume : VolumeOptions,
   sameVolume : BOOLEAN, automaticDuration : BOOLEAN,
   duration : {ExplicitDuration}]

NoOptions ==
  [uri |-> <<>>, hasMetadata |-> FALSE, metadata |-> NoMetadata,
   volume |-> NoVolume, sameVolume |-> FALSE, automaticDuration |-> FALSE,
   duration |-> ExplicitDuration]

EmptySnapshot ==
  [wasPlaying |-> FALSE,
   mediaInfo |-> [CurrentURI |-> <<>>, CurrentURIMetaData |-> <<>>,
                  NrTracks |-> 0],
   positionInfo |-> [Track |-> 0, RelTime |-> NoDuration,
                     TrackDuration |-> NoDuration],
   memberVolumes |-> <<>>]

NoRequest ==
  [endpoint |-> <<>>, actionName |-> "", actionInArgs |-> <<>>]
\* no second call
NoCall == [call |-> 0]

\* the node after RED.nodes.createNode and node.status({})
NoNode ==
  [status |-> "", registered |-> FALSE, check |-> "none", received |-> 0,
   handled |-> 0, play |-> "none"]

NoResult == [err |-> "pending", sent |-> FALSE, value |-> [type |-> "none"]]

InitPlayers ==
  /\ members \in 1..MaxMembers
  /\ volume \in [1..members -> Volumes]
  /\ \E t \in CoordinatorTransports :
       transport = [m \in 1..members |->
                      IF m = coordinatorIndex THEN t ELSE JoinerTransport]

InitNotification ==
  /\ op = "playGroupNotification"
  /\ pc = "getCurrentState"
  /\ InitPlayers
  /\ muted = [m \in 1..members |-> FALSE]
  /\ options \in NotificationOptions

\* createGroupSnapshot, later followed by restoreGroupSnapshot
InitGroupSnapshot ==
  /\ op = "groupSnapshot"
  /\ pc = "create.getVolume"
  /\ InitPlayers
  /\ muted \in [1..members -> BOOLEAN]
  /\ options \in [snapVolumes : BOOLEAN, snapMutestates : BOOLEAN]
  /\ snapshot = [memberData |-> <<>>]
  /\ request = NoRequest

ArgumentNames == {"InstanceID", "CurrentURI", "CurrentURIMetaData", "Speed"}
ArgumentValues == {"", "1"}
ArgumentMaps == UNION {[D -> ArgumentValues] : D \in SUBSET ArgumentNames}
ActionNames ==
  {"SetAVTransportURI", "Play", "GetTransportInfo",
   "GetCurrentTransportActions", "GetZoneGroupState", "Rewind"}
Endpoints == {AVTransportEndpoint, ZoneGroupTopologyEndpoint, UnknownEndpoint}

InitExecuteAction ==
  /\ op = "executeActionV6"
  /\ pc = "executeActionV6"
  /\ members = 1
  /\ volume = [m \in 1..members |-> 20]
  /\ muted = [m \in 1..members |-> FALSE]
  /\ transport = [m \in 1..members |-> JoinerTransport]
  /\ options = NoOptions
  /\ snapshot = EmptySnapshot
  /\ request \in [endpoint : Endpoints, actionName : ActionNames,
                   actionInArgs : ArgumentMaps]

NoGroupsData == [kind |-> "undefined", groups |-> <<>>]
NoPlayer == [host |-> NoHostname]

NoTopology ==
  /\ allGroupsData = NoGroupsData
  /\ sonosPlayer = NoPlayer
  /\ playerName = ""

\* getGroupMemberDataV2 on a player, with or without a player name, and what
\* getAllGroups will come back with
InitGroupMemberData ==
  /\ op = "getGroupMemberDataV2"
  /\ pc = "getAllGroups"
  /\ members = 1
  /\ volume = [m \in 1..members |-> 20]
  /\ muted = [m \in 1..members |-> FALSE]
  /\ transport = [m \in 1..members |-> JoinerTransport]
  /\ options = NoOptions
  /\ snapshot = EmptySnapshot
  /\ request = NoRequest
  /\ \/ /\ allGroupsData \in {[kind |-> k, groups |-> <<>>] :
                                k \in {"throw", "undefined", "object", "array"}}
        /\ sonosPlayer = [host |-> HostnameOf(1)]
        /\ playerName = ""
     \/ \E n \in 1..MaxPlayers :
          /\ allGroupsData \in {[kind |-> "array", groups |-> groups] :
                                  groups \in Households(n)}
          /\ \/ /\ playerName = ""
                /\ sonosPlayer \in {[host |-> HostnameOf(p)] : p \in 0..n}
             \/ /\ playerName \in ZoneNames
                /\ sonosPlayer = [host |-> HostnameOf(1)]

\* getAllPlayerList on a player, and what getAllGroups will come back with
InitAllPlayerList ==
  /\ op = "getAllPlayerList"
  /\ pc = "getAllGroups"
  /\ members = 1
  /\ volume = [m \in 1..members |-> 20]
  /\ muted = [m \in 1..members |-> FALSE]
  /\ transport = [m \in 1..members |-> JoinerTransport]
  /\ options = NoOptions
  /\ snapshot = EmptySnapshot
  /\ request = NoRequest
  /\ sonosPlayer = [host |-> HostnameOf(1)]
  /\ playerName = ""
  /\ \/ allGroupsData \in {[kind |-> k, groups |-> <<>>] :
                             k \in {"throw", "undefined", "object", "array"}}
     \/ \E n \in 1..MaxPlayers :
          allGroupsData \in {[kind |-> "array", groups |-> groups] :
                               groups \in Households(n)}

\* the operations below touch no player
NoPlayers ==
  /\ members = 1
  /\ volume = [m \in 1..members |-> 20]
  /\ muted = [m \in 1..members |-> FALSE]
  /\ transport = [m \in 1..members |-> JoinerTransport]
  /\ options = NoOptions
  /\ snapshot = EmptySnapshot
  /\ request = NoRequest
  /\ NoTopology
  /\ suspended = NoCall
  /\ nodeState = NoNode
  /\ index = 1
  /\ waitInMilliseconds = -1
  /\ calls = <<>>
  /\ result = NoResult
  /\ posts = 0
  /\ response = ThrowReply
  /\ before = [volume |-> volume, muted |-> muted, transport |-> transport]

\* getMusicServiceId on a URI
MusicServiceIdInit ==
  /\ op = "getMusicServiceId"
  /\ pc = "getMusicServiceId"
  /\ NoPlayers
  /\ input \in [xuri : MarkedUris]

\* didlXmlToArray on a DIDL-Lite text and an item name
DidlInit ==
  /\ op = "didlXmlToArray"
  /\ pc = "didlXmlToArray"
  /\ NoPlayers
  /\ input \in [didlXml : DidlInputs, itemName : {"", "item", "container"}]

\* getMySonosV3 on a player with up to MaxItems favourites and with no or one
\* SONOS playlist
MySonosInit ==
  /\ op = "getMySonosV3"
  /\ pc = "Browse FV:2"
  /\ NoPlayers
  /\ input \in [favourites : UNION {[1..n -> DidlItems] : n \in 0..MaxItems},
                 playlists : UNION {[1..n -> DidlItems] : n \in 0..1}]

\* playJoinerNotification on a group of a coordinator and one joiner
InitJoiner ==
  /\ op = "playJoinerNotification"
  /\ pc = "getCurrentState"
  /\ members = joinerIndex
  /\ volume \in [1..members -> Volumes]
  /\ \E t \in CoordinatorTransports :
       transport = [m \in 1..members |->
                      IF m = coordinatorIndex THEN t ELSE JoinerTransport]
  /\ muted = [m \in 1..members |-> FALSE]
  /\ options \in {o \in NotificationOptions : ~o.sameVolume}

\* Globals.REGEX_IP, REGEX_DNS and REGEX_SERIAL on the configured values
REGEX_IP(text) == text = "192.168.178.35"
REGEX_DNS(text) == text \in {"192.168.178.35", "sonos.local"}
REGEX_SERIAL(text) == text = "5C-AA-FD-00-22-36:1"

\* Helper.isTruthyPropertyStringNotEmpty on a property that is there
NotEmptyString(text) == text # ""

\* the My Sonos node is constructed with the address and the serial number
\* of its configuration node
MySonosNodeInit ==
  /\ op = "SonosManageMySonosNode"
  /\ pc = "construct"
  /\ NoPlayers
  /\ input \in [version : {1, 2},
                 ipaddress : {"", "192.168.178.35", "sonos.local", "no address"},
                 serialnum : {"", "5C-AA-FD-00-22-36:1", "5C"}]

\* Helper.validRegex on msg.payload: the text is handed on when it has at
\* least one character
validRegex(text) ==
  IF text = "" THEN Raise("search string is missing", FALSE)
  ELSE Return(text, FALSE)

\* Helper.validToInteger on msg.volume: the default for a missing value, the
\* value when it lies within the limits
validToInteger(msg, min, max, defaultValue) ==
  IF ~msg.hasVolume THEN Return(defaultValue, FALSE)
  ELSE IF msg.volume < min \/ msg.volume > max
  THEN Raise("volume is out of range", FALSE)
  ELSE Return(msg.volume, FALSE)

\* what getMySonos may return: titles are sequences of words
MySonosItems ==
  [title : {<<"Radio", "Paradise">>, <<"Jazz", "Radio">>},
   processingType : {"stream", "queue"},
   uri : {<<"x-rincon-mp3radio://", "stream">>}]

\* mysonosStreamItem with a search string, with or without a volume, on a
\* player with up to MaxItems My Sonos items
StreamItemInit ==
  /\ op = "mysonosStreamItem"
  /\ pc = "getMySonos"
  /\ NoPlayers
  /\ input \in [payload : {"", "Paradise", "Jazz"},
                 hasVolume : BOOLEAN,
                 volume : {30, 101},
                 mySonosItems :
                   UNION {[1..n -> MySonosItems] : n \in 0..MaxItems}]

\* sendSoapToPlayer for a service, an action and its arguments
SoapInit ==
  /\ op = "sendSoapToPlayer"
  /\ pc = "request"
  /\ NoPlayers
  /\ input \in [serviceName : {"AVTransport", "RenderingControl",
                                "ZoneGroupTopology"},
                 actionName : {"Play", "GetVolume", "GetZoneGroupState"},
                 args : {<<>>, <<[key |-> "InstanceID", value |-> "0"]>>}]

\* nothing has been called, sent or answered yet
NoHistory ==
  /\ input = <<>>
  /\ nodeState = NoNode
  /\ index = 1
  /\ waitInMilliseconds = -1
  /\ calls = <<>>
  /\ result = NoResult
  /\ posts = 0
  /\ response = ThrowReply
  /\ before = [volume |-> volume, muted |-> muted, transport |-> transport]

\* one call at a time
InitHistory == NoHistory /\ suspended = NoCall

\* the options of a call that plays an ordinary clip for its explicit
\* duration, at a volume of its own on all members or at the volume found
ClipOptions(uri, clipVolume) ==
  [uri |-> uri, hasMetadata |-> FALSE, metadata |-> NotificationMetadata,
   volume |-> clipVolume, sameVolume |-> clipVolume # NoVolume,
   automaticDuration |-> FALSE, duration |-> ExplicitDuration]

\* two calls of playGroupNotification on the same group of a coordinator and
\* one more member, each with a clip of its own and the second with a volume
\* for it: the first has been called, the second is called while the first
\* waits for a player
OverlapInit ==
  /\ op = "playGroupNotification"
  /\ pc = "getCurrentState"
  /\ members = 2
  /\ volume = [m \in 1..members |-> 20]
  /\ muted = [m \in 1..members |-> FALSE]
  /\ \E t \in CoordinatorTransports :
       /\ t.track = t.nrTracks /\ t.state = "playing"
       /\ t.relTime # NoDuration /\ t.trackDuration # ZeroDuration
       /\ transport = [m \in 1..members |->
                         IF m = coordinatorIndex THEN t ELSE JoinerTransport]
  /\ options = ClipOptions(FirstClip, NoVolume)
  /\ snapshot = EmptySnapshot
  /\ suspended = [call |-> 2, pc |-> "getCurrentState",
                  options |-> ClipOptions(SecondClip, 30),
                  snapshot |-> EmptySnapshot, index |-> 1,
                  waitInMilliseconds |-> -1, switches |-> 0]
  /\ request = NoRequest
  /\ NoTopology
  /\ NoHistory

JoinerInit ==
  /\ InitJoiner /\ snapshot = EmptySnapshot /\ request = NoRequest
  /\ NoTopology
  /\ InitHistory

NotificationInit ==
  /\ InitNotification /\ snapshot = EmptySnapshot /\ request = NoRequest
  /\ NoTopology
  /\ InitHistory

GroupSnapshotInit == InitGroupSnapshot /\ NoTopology /\ InitHistory

ExecuteActionInit == InitExecuteAction /\ NoTopology /\ InitHistory

GroupMemberDataInit == InitGroupMemberData /\ InitHistory

AllPlayerListInit == InitAllPlayerList /\ InitHistory

Init ==
  \/ NotificationInit
  \/ GroupSnapshotInit
  \/ ExecuteActionInit
  \/ GroupMemberDataInit
  \/ AllPlayerListInit
  \/ MusicServiceIdInit
  \/ DidlInit
  \/ MySonosInit
  \/ JoinerInit
  \/ SoapInit
  \/ OverlapInit
  \/ MySonosNodeInit
  \/ StreamItemInit

\* ------------------------------------------------------------ player model
\* SetAVTransportURI on a player: new content, first track, transport stopped
PlayerSetURI(t, newUri, newMeta) ==
  [t EXCEPT !.uri = newUri, !.meta = newMeta, !.state = "stopped",
            !.track = 1, !.relTime = ZeroDuration]

\* node-sonos setAVTransportURI with an options object: it sets the URI and,
\* unless onlySetUri is set, starts playing
PlayerSetAVTransportURI(t, setOptions) ==
  IF setOptions.onlySetUri
  THEN PlayerSetURI(t, setOptions.uri, setOptions.metadata)
  ELSE [PlayerSetURI(t, setOptions.uri, setOptions.metadata) EXCEPT
          !.state = "playing"]

\* the call of playGroupNotification that is running: the first, unless the
\* first is the one that waits
CurrentCall == IF suspended.call = 0 THEN 1 ELSE 3 - suspended.call

Call(phase, member, name, good, vol) ==
  calls' = Append(calls, [phase |-> phase, member |-> member, op |-> name,
                          ok |-> good, vol |-> vol, call |-> CurrentCall])

\* a rejected await is swallowed and the function returns as if it had ended
RaisedIsSwallowed == pc' = "returned"

\* a rejected await that nothing catches ends the operation
Raised == pc' = "raised"

\* --------------------------------------------------- playGroupNotification
Notifying == op = "playGroupNotification"

\* every pass of a loop over the members addresses the coordinator
MemberAtCoordinator(i) == coordinatorIndex

\* lines 127, 148 and 180: membersAsPlayerPlus[index], the player a pass of
\* a loop over the members addresses
MemberAt(i) == i

\* lines 104-109
Metadata ==
  IF ~options.hasMetadata THEN GenerateMetadata(options.uri)
  ELSE options.metadata

\* lines 116-117
GetCurrentState ==
  /\ Notifying /\ pc = "getCurrentState"
  /\ \E good \in BOOLEAN :
       /\ Call("snapshot", coordinatorIndex, "getCurrentState", good, NoVolume)
       /\ IF good
          THEN /\ snapshot' =
                    [snapshot EXCEPT !.wasPlaying =
                       (transport[coordinatorIndex].state = "playing"
                        \/ transport[coordinatorIndex].state = "transitioning")]
               /\ pc' = "GetMediaInfo"
          ELSE Raised /\ UNCHANGED snapshot
  /\ UNCHANGED <<op, members, options, volume, muted, transport, index,
                 waitInMilliseconds, request, result, posts,
                 response, before, topologyVars, input, suspended, nodeState>>

\* the media information is read from the last member of the group
GetMediaInfoOfLastMember ==
  /\ Notifying /\ pc = "GetMediaInfo"
  /\ \E good \in BOOLEAN :
       /\ Call("snapshot", members, "GetMediaInfo", good, NoVolume)
       /\ IF good
          THEN /\ snapshot' =
                    [snapshot EXCEPT !.mediaInfo =
                       [CurrentURI |-> transport[members].uri,
                        CurrentURIMetaData |-> transport[members].meta,
                        NrTracks |-> transport[members].nrTracks]]
               /\ pc' = "GetPositionInfo"
          ELSE Raised /\ UNCHANGED snapshot
  /\ UNCHANGED <<op, members, options, volume, muted, transport, index,
                 waitInMilliseconds, request, result, posts,
                 response, before, topologyVars, input, suspended, nodeState>>

\* line 119
GetMediaInfo ==
  /\ Notifying /\ pc = "GetMediaInfo"
  /\ \E good \in BOOLEAN :
       /\ Call("snapshot", coordinatorIndex, "GetMediaInfo", good, NoVolume)
       /\ IF good
          THEN /\ snapshot' =
                    [snapshot EXCEPT !.mediaInfo =
                       [CurrentURI |-> transport[coordinatorIndex].uri,
                        CurrentURIMetaData |-> transport[coordinatorIndex].meta,
                        NrTracks |-> transport[coordinatorIndex].nrTracks]]
               /\ pc' = "GetPositionInfo"
          ELSE Raised /\ UNCHANGED snapshot
  /\ UNCHANGED <<op, members, options, volume, muted, transport, index,
                 waitInMilliseconds, request, result, posts,
                 response, before, topologyVars, input, suspended, nodeState>>

\* line 120
GetPositionInfo ==
  /\ Notifying /\ pc = "GetPositionInfo"
  /\ \E good \in BOOLEAN :
       /\ Call("snapshot", coordinatorIndex, "GetPositionInfo", good, NoVolume)
       /\ IF good
          THEN /\ snapshot' =
                    [snapshot EXCEPT !.positionInfo =
                       [Track |-> transport[coordinatorIndex].track,
                        RelTime |-> transport[coordinatorIndex].relTime,
                        TrackDuration |->
                          transport[coordinatorIndex].trackDuration]]
               /\ pc' = "snapCoordinatorVolume"
          ELSE Raised /\ UNCHANGED snapshot
  /\ UNCHANGED <<op, members, options, volume, muted, transport, index,
                 waitInMilliseconds, request, result, posts,
                 response, before, topologyVars, input, suspended, nodeState>>

\* lines 121-124
SnapCoordinatorVolume ==
  /\ Notifying /\ pc = "snapCoordinatorVolume"
  /\ IF options.volume # -1
     THEN \E good \in BOOLEAN :
            /\ Call("snapshot", coordinatorIndex, "getVolume", good,
                    volume[coordinatorIndex])
            /\ IF good
               THEN /\ snapshot' =
                         [snapshot EXCEPT !.memberVolumes =
                            (coordinatorIndex :> volume[coordinatorIndex]) @@ @]
                    /\ pc' = "snapMemberVolumes"
               ELSE Raised /\ UNCHANGED snapshot
     ELSE pc' = "snapMemberVolumes" /\ UNCHANGED <<snapshot, calls>>
  /\ index' = 2
  /\ UNCHANGED <<op, members, options, volume, muted, transport,
                 waitInMilliseconds, request, result, posts,
                 response, before, topologyVars, input, suspended, nodeState>>

\* lines 125-129
SnapMemberVolume ==
  /\ Notifying /\ pc = "snapMemberVolumes"
  /\ IF options.sameVolume /\ index <= members
     THEN \E good \in BOOLEAN :
            /\ Call("snapshot", MemberAt(index), "getVolume", good,
                    volume[MemberAt(index)])
            /\ IF good
               THEN /\ snapshot' =
                         [snapshot EXCEPT !.memberVolumes =
                            (index :> volume[MemberAt(index)]) @@ @]
                    /\ index' = index + 1
                    /\ pc' = pc
               ELSE Raised /\ UNCHANGED <<snapshot, index>>
     ELSE pc' = "SetAVTransportURI" /\ UNCHANGED <<snapshot, calls, index>>
  /\ UNCHANGED <<op, members, options, volume, muted, transport,
                 waitInMilliseconds, request, result, posts,
                 response, before, topologyVars, input, suspended, nodeState>>

\* lines 132-140
SetNotificationURI ==
  /\ Notifying /\ pc = "SetAVTransportURI"
  /\ LET args == [InstanceID |-> "0",
                  CurrentURI |-> encodeXml(options.uri),
                  CurrentURIMetaData |->
                    IF Metadata # NoMetadata THEN encodeXml(Metadata)
                    ELSE NoMetadata]
     IN \E reply \in {GoodReply(AVTransportEndpoint, "SetAVTransportURI"),
                         ThrowReply} :
          LET r == executeActionV6(AVTransportEndpoint, "SetAVTransportURI",
                                   args, reply) IN
          /\ Call("override", coordinatorIndex, "SetAVTransportURI",
                  r.err = "none", NoVolume)
          /\ IF r.err = "none"
             THEN /\ transport' =
                       [transport EXCEPT ![coordinatorIndex] =
                          PlayerSetURI(@, PlayerDecode(args.CurrentURI),
                                       PlayerDecode(args.CurrentURIMetaData))]
                  /\ pc' = "setCoordinatorVolume"
             ELSE Raised /\ UNCHANGED transport
  /\ UNCHANGED <<op, members, options, volume, muted, snapshot, index,
                 waitInMilliseconds, request, result, posts,
                 response, before, topologyVars, input, suspended, nodeState>>

\* lines 143-145
SetCoordinatorVolume ==
  /\ Notifying /\ pc = "setCoordinatorVolume"
  /\ IF options.volume # -1
     THEN \E good \in BOOLEAN :
            /\ Call("override", coordinatorIndex, "setVolume", good,
                    options.volume)
            /\ IF good
               THEN /\ volume' = [volume EXCEPT ![coordinatorIndex] =
                                    options.volume]
                    /\ pc' = "setMemberVolumes"
               ELSE Raised /\ UNCHANGED volume
     ELSE pc' = "Play" /\ UNCHANGED <<volume, calls>>
  /\ index' = 2
  /\ UNCHANGED <<op, members, options, muted, transport, snapshot,
                 waitInMilliseconds, request, result, posts,
                 response, before, topologyVars, input, suspended, nodeState>>

\* lines 146-150
SetMemberVolume ==
  /\ Notifying /\ pc = "setMemberVolumes"
  /\ IF options.sameVolume /\ index <= members
     THEN \E good \in BOOLEAN :
            /\ Call("override", MemberAt(index), "setVolume", good,
                    options.volume)
            /\ IF good
               THEN /\ volume' = [volume EXCEPT ![MemberAt(index)] =
                                    options.volume]
                    /\ index' = index + 1
                    /\ pc' = pc
               ELSE Raised /\ UNCHANGED <<volume, index>>
     ELSE pc' = "Play" /\ UNCHANGED <<volume, calls, index>>
  /\ UNCHANGED <<op, members, options, muted, transport, snapshot,
                 waitInMilliseconds, request, result, posts,
                 response, before, topologyVars, input, suspended, nodeState>>

\* lines 152-155
PlayNotification ==
  /\ Notifying /\ pc = "Play"
  /\ \E reply \in {GoodReply(AVTransportEndpoint, "Play"), ThrowReply} :
       LET r == executeActionV6(AVTransportEndpoint, "Play",
                                [InstanceID |-> "0", Speed |-> "1"],
                                reply) IN
       /\ Call("override", coordinatorIndex, "Play", r.err = "none", NoVolume)
       /\ IF r.err = "none"
          THEN /\ transport' = [transport EXCEPT ![coordinatorIndex].state =
                                  "playing"]
               /\ pc' = "waitPositionInfo"
          ELSE Raised /\ UNCHANGED transport
  /\ UNCHANGED <<op, members, options, volume, muted, snapshot, index,
                 waitInMilliseconds, request, result, posts,
                 response, before, topologyVars, input, suspended, nodeState>>

\* the reported duration is taken without the adjustment
EstimatedWaitUnadjusted(TrackDuration, duration) ==
  IF TrackDuration # NoDuration
  THEN hhmmss2msec(TrackDuration)
  ELSE hhmmss2msec(duration)

\* lines 159-167 and 271-279: the wait when the player was asked for the
\* duration of the clip
EstimatedWait(TrackDuration, duration) ==
  IF TrackDuration # NoDuration
  THEN hhmmss2msec(TrackDuration) + WAIT_ADJUSTMENT
  ELSE hhmmss2msec(duration)

\* lines 159-169: the player reports the duration of the clip, or none; the
\* call is recorded with the duration it was answered with
EstimateDuration ==
  /\ Notifying /\ pc = "waitPositionInfo"
  /\ IF options.automaticDuration
     THEN \E good \in BOOLEAN, TrackDuration \in ClipDurations :
            /\ Call("wait", coordinatorIndex, "GetPositionInfo", good,
                    IF good THEN TrackDuration ELSE NoDuration)
            /\ IF good
               THEN /\ waitInMilliseconds' =
                         EstimatedWait(TrackDuration, options.duration)
                    /\ pc' = "setTimeout"
               ELSE Raised /\ UNCHANGED waitInMilliseconds
     ELSE /\ waitInMilliseconds' = hhmmss2msec(options.duration)
          /\ pc' = "setTimeout"
          /\ UNCHANGED calls
  /\ UNCHANGED <<op, members, options, volume, muted, transport, snapshot,
                 index, request, result, posts,
                 response, before, topologyVars, input, suspended, nodeState>>

\* line 171: the timer fires; the clip may have come to its end meanwhile
Wait ==
  /\ Notifying /\ pc = "setTimeout"
  /\ \E ended \in BOOLEAN :
       transport' = [transport EXCEPT ![coordinatorIndex].state =
                       IF ended THEN "stopped" ELSE @]
  /\ pc' = "restoreCoordinatorVolume"
  /\ UNCHANGED <<op, members, options, volume, muted, snapshot, index,
                 waitInMilliseconds, calls, request, result, posts,
                 response, before, topologyVars, input, suspended, nodeState>>

\* lines 175-177
RestoreCoordinatorVolume ==
  /\ Notifying /\ pc = "restoreCoordinatorVolume"
  /\ IF options.volume # -1
     THEN \E good \in BOOLEAN :
            /\ Call("restore", coordinatorIndex, "setVolume", good,
                    snapshot.memberVolumes[coordinatorIndex])
            /\ IF good
               THEN /\ volume' = [volume EXCEPT ![coordinatorIndex] =
                                    snapshot.memberVolumes[coordinatorIndex]]
                    /\ pc' = "restoreMemberVolumes"
               ELSE Raised /\ UNCHANGED volume
     ELSE pc' = "restoreMemberVolumes" /\ UNCHANGED <<volume, calls>>
  /\ index' = 2
  /\ UNCHANGED <<op, members, options, muted, transport, snapshot,
                 waitInMilliseconds, request, result, posts,
                 response, before, topologyVars, input, suspended, nodeState>>

\* the coordinator's captured volume written to every member
RestoredVolumeOfCoordinator(member) ==
  IF coordinatorIndex \in DOMAIN snapshot.memberVolumes
  THEN snapshot.memberVolumes[coordinatorIndex]
  ELSE snapshot.memberVolumes[member]

\* line 180: the volume written back to a member
RestoredVolume(member) == snapshot.memberVolumes[member]

\* lines 178-182
RestoreMemberVolume ==
  /\ Notifying /\ pc = "restoreMemberVolumes"
  /\ IF options.sameVolume /\ index <= members
     THEN \E good \in BOOLEAN :
            /\ Call("restore", MemberAt(index), "setVolume", good,
                    RestoredVolume(index))
            /\ IF good
               THEN /\ volume' = [volume EXCEPT ![MemberAt(index)] =
                                    RestoredVolume(index)]
                    /\ index' = index + 1
                    /\ pc' = pc
               ELSE Raised /\ UNCHANGED <<volume, index>>
     ELSE pc' = "restoreURI" /\ UNCHANGED <<volume, calls, index>>
  /\ UNCHANGED <<op, members, options, muted, transport, snapshot,
                 waitInMilliseconds, request, result, posts,
                 response, before, topologyVars, input, suspended, nodeState>>

\* the reapplication never happens
NeverRecoverable == FALSE

\* lines 183 and 204: the test that guards the reapplication and the resume
Recoverable == ~Includes(options.uri, VliMarker)

\* lines 183-189
RestoreURI ==
  /\ Notifying /\ pc = "restoreURI"
  /\ IF Recoverable
     THEN \E good \in BOOLEAN :
            /\ Call("restore", coordinatorIndex, "setAVTransportURI", good,
                    NoVolume)
            /\ IF good
               THEN /\ transport' =
                         [transport EXCEPT ![coordinatorIndex] =
                            PlayerSetURI(@, snapshot.mediaInfo.CurrentURI,
                                         snapshot.mediaInfo.CurrentURIMetaData)]
                    /\ pc' = "selectTrack"
               ELSE Raised /\ UNCHANGED transport
     ELSE pc' = "selectTrack" /\ UNCHANGED <<transport, calls>>
  /\ UNCHANGED <<op, members, options, volume, muted, snapshot, index,
                 waitInMilliseconds, request, result, posts,
                 response, before, topologyVars, input, suspended, nodeState>>

\* the rejection of a best-effort step is not caught
AfterCaughtRethrows(good, next) == pc' = IF good THEN next ELSE "raised"

\* lines 192-194 and 199-201: .catch(() => node.debug(...)) swallows the
\* rejection, the function goes on with the statement after the await
AfterCaught(good, next) == pc' = next

\* line 190
ReselectNeeded(Track, NrTracks) == Track # 0 /\ Track > 1 /\ NrTracks > 1

\* a captured position of zero counts as no position
SeekNeededIfNonZero(RelTime, TrackDuration) ==
  RelTime \notin {NoDuration, ZeroDuration} /\ TrackDuration # ZeroDuration

\* line 196
SeekNeeded(RelTime, TrackDuration) ==
  Truthy(RelTime) /\ TrackDuration # ZeroDuration

\* lines 190-195
SelectTrack ==
  /\ Notifying /\ pc = "selectTrack"
  /\ IF ReselectNeeded(snapshot.positionInfo.Track, snapshot.mediaInfo.NrTracks)
     THEN \E good \in BOOLEAN :
            /\ Call("restore", coordinatorIndex, "selectTrack", good, NoVolume)
            /\ transport' =
                 IF good
                 THEN [transport EXCEPT
                         ![coordinatorIndex].track = snapshot.positionInfo.Track,
                         ![coordinatorIndex].relTime = ZeroDuration]
                 ELSE transport
            /\ AfterCaught(good, "Seek")
     ELSE pc' = "Seek" /\ UNCHANGED <<transport, calls>>
  /\ UNCHANGED <<op, members, options, volume, muted, snapshot, index,
                 waitInMilliseconds, request, result, posts,
                 response, before, topologyVars, input, suspended, nodeState>>

\* lines 196-202
SeekRelTime ==
  /\ Notifying /\ pc = "Seek"
  /\ IF SeekNeeded(snapshot.positionInfo.RelTime,
                   snapshot.positionInfo.TrackDuration)
     THEN \E good \in BOOLEAN :
            /\ Call("restore", coordinatorIndex, "Seek", good, NoVolume)
            /\ transport' =
                 IF good
                 THEN [transport EXCEPT ![coordinatorIndex].relTime =
                         snapshot.positionInfo.RelTime]
                 ELSE transport
            /\ AfterCaught(good, "play")
     ELSE pc' = "play" /\ UNCHANGED <<transport, calls>>
  /\ UNCHANGED <<op, members, options, volume, muted, snapshot, index,
                 waitInMilliseconds, request, result, posts,
                 response, before, topologyVars, input, suspended, nodeState>>

\* the resume does not look at the captured state
ResumeAlways == Recoverable

\* lines 203-204
ResumeNeeded == snapshot.wasPlaying /\ Recoverable

\* lines 203-207
ResumePlay ==
  /\ Notifying /\ pc = "play"
  /\ IF ResumeNeeded
     THEN \E good \in BOOLEAN :
            /\ Call("restore", coordinatorIndex, "play", good, NoVolume)
            /\ IF good
               THEN /\ transport' = [transport EXCEPT
                                       ![coordinatorIndex].state = "playing"]
                    /\ pc' = "returned"
               ELSE Raised /\ UNCHANGED transport
     ELSE pc' = "returned" /\ UNCHANGED <<transport, calls>>
  /\ UNCHANGED <<op, members, options, volume, muted, snapshot, index,
                 waitInMilliseconds, request, result, posts,
                 response, before, topologyVars, input, suspended, nodeState>>

\* ----------------------------------------------------- createGroupSnapshot
Snapshotting == op = "groupSnapshot"

execVars == <<request, result, posts, response>>

\* lines 324-330: a new member entry, and its volume if volumes are captured
CreateGetVolume ==
  /\ Snapshotting /\ pc = "create.getVolume"
  /\ IF index <= members
     THEN IF options.snapVolumes
          THEN \E good \in BOOLEAN :
                 /\ Call("create", index, "getVolume", good, volume[index])
                 /\ IF good
                    THEN /\ snapshot' =
                              [snapshot EXCEPT !.memberData =
                                 Append(@, [volume |-> volume[index],
                                            mutestate |-> "null"])]
                         /\ pc' = "create.getMuted"
                    ELSE Raised /\ UNCHANGED snapshot
          ELSE /\ snapshot' =
                    [snapshot EXCEPT !.memberData =
                       Append(@, [volume |-> -1, mutestate |-> "null"])]
               /\ pc' = "create.getMuted"
               /\ UNCHANGED calls
     ELSE pc' = "create.getCurrentState" /\ UNCHANGED <<snapshot, calls>>
  /\ UNCHANGED <<op, members, options, volume, muted, transport, index,
                 waitInMilliseconds, execVars, before,
                 topologyVars, input, suspended, nodeState>>

\* the mute state is stored the other way round
MutestateInverted(playersMutestate) ==
  IF playersMutestate THEN "off" ELSE "on"

\* line 334
MutestateOf(playersMutestate) == IF playersMutestate THEN "on" ELSE "off"

\* lines 331-338
CreateGetMuted ==
  /\ Snapshotting /\ pc = "create.getMuted"
  /\ IF options.snapMutestates
     THEN \E good \in BOOLEAN :
            /\ Call("create", index, "getMuted", good, NoVolume)
            /\ IF good
               THEN /\ snapshot' =
                         [snapshot EXCEPT !.memberData[index].mutestate =
                            MutestateOf(muted[index])]
                    /\ index' = index + 1
                    /\ pc' = "create.getVolume"
               ELSE Raised /\ UNCHANGED <<snapshot, index>>
     ELSE /\ index' = index + 1
          /\ pc' = "create.getVolume"
          /\ UNCHANGED <<snapshot, calls>>
  /\ UNCHANGED <<op, members, options, volume, muted, transport,
                 waitInMilliseconds, execVars, before,
                 topologyVars, input, suspended, nodeState>>

\* lines 340-347: playback state, media and position of the coordinator
CreateGetPlayback ==
  /\ Snapshotting
  /\ pc \in {"create.getCurrentState", "create.GetMediaInfo",
             "create.GetPositionInfo"}
  /\ LET t == transport[coordinatorIndex] IN
     \E good \in BOOLEAN :
       /\ Call("create", coordinatorIndex,
               CASE pc = "create.getCurrentState" -> "getCurrentState"
                 [] pc = "create.GetMediaInfo" -> "GetMediaInfo"
                 [] OTHER -> "GetPositionInfo",
               good, NoVolume)
       /\ IF ~good THEN Raised /\ UNCHANGED snapshot
          ELSE CASE pc = "create.getCurrentState" ->
                      /\ snapshot' =
                           [playbackstate |-> t.state,
                            wasPlaying |-> (t.state = "playing"
                                            \/ t.state = "transitioning")]
                           @@ snapshot
                      /\ pc' = "create.GetMediaInfo"
                 [] pc = "create.GetMediaInfo" ->
                      /\ snapshot' =
                           [CurrentURI |-> t.uri, CurrentURIMetadata |-> t.meta,
                            NrTracks |-> t.nrTracks] @@ snapshot
                      /\ pc' = "create.GetPositionInfo"
                 [] OTHER ->
                      /\ snapshot' =
                           [Track |-> t.track, RelTime |-> t.relTime,
                            TrackDuration |-> t.trackDuration] @@ snapshot
                      /\ pc' = "created"
  /\ UNCHANGED <<op, members, options, volume, muted, transport, index,
                 waitInMilliseconds, execVars, before,
                 topologyVars, input, suspended, nodeState>>

\* between the two calls another controller may take over the group: other
\* content, other volumes, other mute states
OtherController ==
  /\ Snapshotting /\ pc = "created"
  /\ \A i \in DOMAIN calls : calls[i].phase # "between"
  /\ \E v \in Volumes, uri \in NotificationUris :
       /\ volume' = [m \in Members |-> v]
       /\ transport' = [transport EXCEPT ![coordinatorIndex] =
                          [PlayerSetURI(@, uri, NoMetadata) EXCEPT
                             !.state = "playing"]]
  /\ muted' = [m \in Members |-> ~muted[m]]
  /\ Call("between", coordinatorIndex, "otherController", TRUE, NoVolume)
  /\ UNCHANGED <<op, pc, members, options, snapshot, index,
                 waitInMilliseconds, execVars, before,
                 topologyVars, input, suspended, nodeState>>

\* ---------------------------------------------------- restoreGroupSnapshot
\* the URI is set and played
SetAndPlay(snap) ==
  [uri |-> snap.CurrentURI, metadata |-> snap.CurrentURIMetadata,
   onlySetUri |-> FALSE]

\* lines 368-372: the options restoreGroupSnapshot hands to setAVTransportURI
SetOnly(snap) ==
  [uri |-> snap.CurrentURI, metadata |-> snap.CurrentURIMetadata,
   onlySetUri |-> TRUE]

\* a rejection of setAVTransportURI is caught like that of the track reselect
AfterSetURICaught(good) == "restore.selectTrack"

\* line 367: the await has no catch, a rejection ends the operation
AfterSetURI(good) == IF good THEN "restore.selectTrack" ELSE "raised"

\* lines 367-372
RestoreSetURI ==
  /\ Snapshotting /\ pc = "created"
  /\ \E good \in BOOLEAN :
       /\ Call("restore", coordinatorIndex, "setAVTransportURI", good, NoVolume)
       /\ transport' =
            IF good
            THEN [transport EXCEPT ![coordinatorIndex] =
                    PlayerSetAVTransportURI(@, SetOnly(snapshot))]
            ELSE transport
       /\ pc' = AfterSetURI(good)
  /\ UNCHANGED <<op, members, options, volume, muted, snapshot, index,
                 waitInMilliseconds, execVars, before,
                 topologyVars, input, suspended, nodeState>>

\* lines 373-378
RestoreSelectTrack ==
  /\ Snapshotting /\ pc = "restore.selectTrack"
  /\ IF ReselectNeeded(snapshot.Track, snapshot.NrTracks)
     THEN \E good \in BOOLEAN :
            /\ Call("restore", coordinatorIndex, "selectTrack", good, NoVolume)
            /\ transport' =
                 IF good
                 THEN [transport EXCEPT
                         ![coordinatorIndex].track = snapshot.Track,
                         ![coordinatorIndex].relTime = ZeroDuration]
                 ELSE transport
            /\ AfterCaught(good, "restore.Seek")
     ELSE pc' = "restore.Seek" /\ UNCHANGED <<transport, calls>>
  /\ UNCHANGED <<op, members, options, volume, muted, snapshot, index,
                 waitInMilliseconds, execVars, before,
                 topologyVars, input, suspended, nodeState>>

\* lines 379-385
RestoreSeek ==
  /\ Snapshotting /\ pc = "restore.Seek"
  /\ IF SeekNeeded(snapshot.RelTime, snapshot.TrackDuration)
     THEN \E good \in BOOLEAN :
            /\ Call("restore", coordinatorIndex, "Seek", good, NoVolume)
            /\ transport' =
                 IF good
                 THEN [transport EXCEPT ![coordinatorIndex].relTime =
                         snapshot.RelTime]
                 ELSE transport
            /\ AfterCaught(good, "restore.setVolume")
     ELSE pc' = "restore.setVolume" /\ UNCHANGED <<transport, calls>>
  /\ index' = 1
  /\ UNCHANGED <<op, members, options, volume, muted, snapshot,
                 waitInMilliseconds, execVars, before,
                 topologyVars, input, suspended, nodeState>>

\* the rejection of a volume or mute write is swallowed
AfterAwaitSwallows(good, next) == pc' = next

\* lines 393 and 398: an await that nothing catches
AfterAwait(good, next) == pc' = IF good THEN next ELSE "raised"

\* a volume counts as captured when it is truthy
VolumeCapturedIfTruthy(v) == v > 0

\* line 392
VolumeCaptured(v) == v # -1

\* line 396
MutestateCaptured(mutestate) == mutestate # "null"

\* lines 390-394, and line 401 once the loop is over
RestoreSetVolume ==
  /\ Snapshotting /\ pc = "restore.setVolume"
  /\ IF index <= members
     THEN IF VolumeCaptured(snapshot.memberData[index].volume)
          THEN \E good \in BOOLEAN :
                 /\ Call("restore", index, "setVolume", good,
                         snapshot.memberData[index].volume)
                 /\ volume' =
                      IF good
                      THEN [volume EXCEPT ![index] =
                              snapshot.memberData[index].volume]
                      ELSE volume
                 /\ AfterAwait(good, "restore.setMuted")
          ELSE pc' = "restore.setMuted" /\ UNCHANGED <<volume, calls>>
     ELSE pc' = "returned" /\ UNCHANGED <<volume, calls>>
  /\ UNCHANGED <<op, members, options, muted, transport, snapshot, index,
                 waitInMilliseconds, execVars, before,
                 topologyVars, input, suspended, nodeState>>

\* lines 395-399
RestoreSetMuted ==
  /\ Snapshotting /\ pc = "restore.setMuted"
  /\ IF MutestateCaptured(snapshot.memberData[index].mutestate)
     THEN \E good \in BOOLEAN :
            /\ Call("restore", index, "setMuted", good, NoVolume)
            /\ muted' =
                 IF good
                 THEN [muted EXCEPT ![index] =
                         (snapshot.memberData[index].mutestate = "on")]
                 ELSE muted
            /\ AfterAwait(good, "restore.setVolume")
            /\ index' = IF good THEN index + 1 ELSE index
     ELSE /\ pc' = "restore.setVolume"
          /\ index' = index + 1
          /\ UNCHANGED <<muted, calls>>
  /\ UNCHANGED <<op, members, options, volume, transport, snapshot,
                 waitInMilliseconds, execVars, before,
                 topologyVars, input, suspended, nodeState>>

\* --------------------------------------------------------- executeActionV6
Executing == op = "executeActionV6"

\* the replies sendToPlayerV1 can come back with, or its throwing
Responses(endpoint, actionName) ==
  LET outs == Range(ACTIONS_TEMPLATESV6[endpoint][actionName].outArgs)
      expected == ExpectedResponseValue(ServiceNameOf(endpoint))
      other == ExpectedResponseValue("RenderingControl")
      values == {[k \in keys |-> "value"] : keys \in SUBSET (outs \cup {"Extra"})}
  IN {ThrowReply,
      Reply(FALSE, 0, TRUE, TRUE, actionName, GoodReply(endpoint, actionName).result),
      Reply(TRUE, 204, TRUE, TRUE, actionName, GoodReply(endpoint, actionName).result),
      Reply(TRUE, 200, FALSE, TRUE, actionName, <<>>),
      Reply(TRUE, 200, TRUE, FALSE, actionName, <<>>),
      Reply(TRUE, 200, TRUE, TRUE, "", <<>>),
      Reply(TRUE, 200, TRUE, TRUE, "Fault", <<>>)}
     \cup {Reply(TRUE, 200, TRUE, TRUE, actionName, v) : v \in values}
     \cup {Reply(TRUE, 200, TRUE, TRUE, actionName, ("xmlns:u" :> ns) @@ v) :
             ns \in {expected, other}, v \in values}

\* lines 697-717: up to the call of sendToPlayerV1
ValidateAndSend ==
  /\ Executing /\ pc = "executeActionV6"
  /\ LET problem == ValidateRequest(request.endpoint, request.actionName,
                                    request.actionInArgs) IN
     IF problem # "none"
     THEN /\ result' = Raise(problem, FALSE)
          /\ pc' = "raised"
          /\ UNCHANGED posts
     ELSE /\ posts' = posts + 1
          /\ pc' = "sendToPlayerV1"
          /\ UNCHANGED result
  /\ UNCHANGED <<op, members, options, volume, muted, transport, snapshot,
                 index, waitInMilliseconds, calls, request, response, before,
                 topologyVars, input, suspended, nodeState>>

\* lines 717-779: the reply arrives and is decoded
ReceiveResponse ==
  /\ Executing /\ pc = "sendToPlayerV1"
  /\ response' \in Responses(request.endpoint, request.actionName)
  /\ result' = executeActionV6(request.endpoint, request.actionName,
                               request.actionInArgs, response')
  /\ pc' = IF result'.err = "none" THEN "returned" ELSE "raised"
  /\ UNCHANGED <<op, members, options, volume, muted, transport, snapshot,
                 index, waitInMilliseconds, calls, request, posts, before,
                 topologyVars, input, suspended, nodeState>>

\* ---------------------------------------------------- getGroupMemberDataV2
Resolving == op = "getGroupMemberDataV2"

\* lines 418-460: getAllGroups has answered; its answer is checked and
\* scanned for the player
GetAllGroups ==
  /\ Resolving /\ pc = "getAllGroups"
  /\ LET answer == getGroupMemberDataV2(allGroupsData, sonosPlayer,
                                        playerName) IN
     IF answer.err # "none"
     THEN result' = answer /\ pc' = "raised"
     ELSE pc' = "sortedGroupArray" /\ UNCHANGED result
  /\ UNCHANGED <<op, members, options, volume, muted, transport, snapshot,
                 index, waitInMilliseconds, calls, request, posts, response,
                 before, topologyVars, input, suspended, nodeState>>

\* lines 462-470: the members are sorted and filtered, the answer returned
SortAndReturn ==
  /\ Resolving /\ pc = "sortedGroupArray"
  /\ result' = getGroupMemberDataV2(allGroupsData, sonosPlayer, playerName)
  /\ pc' = "returned"
  /\ UNCHANGED <<op, members, options, volume, muted, transport, snapshot,
                 index, waitInMilliseconds, calls, request, posts, response,
                 before, topologyVars, input, suspended, nodeState>>

\* -------------------------------------------------------- getAllPlayerList
Listing == op = "getAllPlayerList"

\* lines 483-520: getAllGroups has answered; its answer is checked and the
\* players are collected
ListPlayers ==
  /\ Listing /\ pc = "getAllGroups"
  /\ result' = getAllPlayerList(allGroupsData)
  /\ pc' = IF result'.err = "none" THEN "returned" ELSE "raised"
  /\ UNCHANGED <<op, members, options, volume, muted, transport, snapshot,
                 index, waitInMilliseconds, calls, request, posts, response,
                 before, topologyVars, input, suspended, nodeState>>

\* ------------------------------------------------------- getMusicServiceId
\* everything but pc and result
callVars ==
  <<op, members, options, volume, muted, transport, snapshot, index,
    waitInMilliseconds, calls, request, posts, response, before,
    topologyVars, input, suspended, nodeState>>

\* lines 951-961
GetMusicServiceId ==
  /\ op = "getMusicServiceId" /\ pc = "getMusicServiceId"
  /\ result' = Return([type |-> "string",
                       v |-> getMusicServiceId(input.xuri)], FALSE)
  /\ pc' = "returned"
  /\ UNCHANGED callVars

\* ---------------------------------------------------------- didlXmlToArray
\* lines 855-941
DidlXmlToArray ==
  /\ op = "didlXmlToArray" /\ pc = "didlXmlToArray"
  /\ result' = didlXmlToArray(input.didlXml, input.itemName)
  /\ pc' = IF result'.err = "none" THEN "returned" ELSE "raised"
  /\ UNCHANGED callVars

\* ------------------------------------------------------------ getMySonosV3
\* lines 536-583: executeActionV6 raises, returns an object without
\* NumberReturned, or returns the favourites of the player
BrowseFavourites ==
  /\ op = "getMySonosV3" /\ pc = "Browse FV:2"
  /\ \E outcome \in {"throw", "incomplete", "result"} :
       LET browseFv == IF outcome = "result"
                       THEN BrowseResult(input.favourites, "item")
                       ELSE [Result |-> <<>>]
           listMySonos == didlXmlToArray(browseFv.Result, "item")
       IN result' =
            IF outcome = "throw" THEN Raise("executeActionV6", TRUE)
            ELSE IF ~isValidPropertyNotEmptyString(browseFv, "NumberReturned")
            THEN Raise("missing NumberReturned value", TRUE)
            ELSE IF browseFv.NumberReturned = <<"0">>
            THEN Raise("Could not find any My Sonos item", TRUE)
            ELSE IF listMySonos.err # "none" THEN listMySonos
            ELSE [err |-> "pending", sent |-> TRUE,
                  value |-> [type |-> "array",
                             v |-> [i \in DOMAIN listMySonos.value.v |->
                                      MapFavourite(listMySonos.value.v[i],
                                                   PlayerUrlOrigin)]]]
  /\ pc' = IF result'.err = "pending" THEN "Browse SQ:" ELSE "raised"
  /\ UNCHANGED callVars

\* lines 585-587 with getSonosPlaylistsV2, lines 597-629
BrowsePlaylists ==
  /\ op = "getMySonosV3" /\ pc = "Browse SQ:"
  /\ \E outcome \in {"throw", "incomplete", "result"} :
       LET browsePlaylist == IF outcome = "result"
                             THEN BrowseResult(input.playlists, "container")
                             ELSE [Result |-> <<>>]
           playlistArray == didlXmlToArray(browsePlaylist.Result, "container")
           mySonosPlusPl == result.value.v
       IN result' =
            IF outcome = "throw" THEN Raise("executeActionV6", TRUE)
            ELSE IF ~isValidPropertyNotEmptyString(browsePlaylist,
                                                   "NumberReturned")
            THEN Raise("missing NumberReturned value", TRUE)
            ELSE IF browsePlaylist.NumberReturned = <<"0">>
            THEN Return([type |-> "array", v |-> mySonosPlusPl], TRUE)
            ELSE IF playlistArray.err # "none" THEN playlistArray
            ELSE Return([type |-> "array",
                         v |-> mySonosPlusPl \o
                                 [i \in DOMAIN playlistArray.value.v |->
                                    MapPlaylist(playlistArray.value.v[i],
                                                PlayerUrlOrigin)]], TRUE)
  /\ pc' = IF result'.err = "none" THEN "returned" ELSE "raised"
  /\ UNCHANGED callVars

\* --------------------------------------------------- playJoinerNotification
JoinerNotifying == op = "playJoinerNotification"

\* the state is read from the joiner itself
StateOfJoiner == joinerIndex

\* line 243: the player whose state is read
StateSource == coordinatorIndex

\* lines 243-244
JoinerGetCurrentState ==
  /\ JoinerNotifying /\ pc = "getCurrentState"
  /\ \E good \in BOOLEAN :
       /\ Call("snapshot", StateSource, "getCurrentState", good, NoVolume)
       /\ IF good
          THEN /\ snapshot' =
                    [snapshot EXCEPT !.wasPlaying =
                       (transport[StateSource].state = "playing"
                        \/ transport[StateSource].state = "transitioning")]
               /\ pc' = "GetMediaInfo"
          ELSE Raised /\ UNCHANGED snapshot
  /\ UNCHANGED <<op, members, options, volume, muted, transport, index,
                 waitInMilliseconds, request, result, posts, response,
                 before, topologyVars, input, suspended, nodeState>>

\* line 245
JoinerGetMediaInfo ==
  /\ JoinerNotifying /\ pc = "GetMediaInfo"
  /\ \E good \in BOOLEAN :
       /\ Call("snapshot", joinerIndex, "GetMediaInfo", good, NoVolume)
       /\ IF good
          THEN /\ snapshot' =
                    [snapshot EXCEPT !.mediaInfo =
                       [CurrentURI |-> transport[joinerIndex].uri,
                        CurrentURIMetaData |-> transport[joinerIndex].meta,
                        NrTracks |-> transport[joinerIndex].nrTracks]]
               /\ pc' = "getVolume"
          ELSE Raised /\ UNCHANGED snapshot
  /\ UNCHANGED <<op, members, options, volume, muted, transport, index,
                 waitInMilliseconds, request, result, posts, response,
                 before, topologyVars, input, suspended, nodeState>>

\* lines 246-248: snapshot.joinerVolume
JoinerGetVolume ==
  /\ JoinerNotifying /\ pc = "getVolume"
  /\ IF options.volume # -1
     THEN \E good \in BOOLEAN :
            /\ Call("snapshot", joinerIndex, "getVolume", good,
                    volume[joinerIndex])
            /\ IF good
               THEN /\ snapshot' =
                         [snapshot EXCEPT !.memberVolumes =
                            (joinerIndex :> volume[joinerIndex])]
                    /\ pc' = "SetAVTransportURI"
               ELSE Raised /\ UNCHANGED snapshot
     ELSE pc' = "SetAVTransportURI" /\ UNCHANGED <<snapshot, calls>>
  /\ UNCHANGED <<op, members, options, volume, muted, transport, index,
                 waitInMilliseconds, request, result, posts, response,
                 before, topologyVars, input, suspended, nodeState>>

\* lines 252-258
JoinerSetNotificationURI ==
  /\ JoinerNotifying /\ pc = "SetAVTransportURI"
  /\ LET args == [InstanceID |-> "0",
                  CurrentURI |-> encodeXml(options.uri),
                  CurrentURIMetaData |->
                    IF Metadata # NoMetadata THEN encodeXml(Metadata)
                    ELSE NoMetadata]
     IN \E reply \in {GoodReply(AVTransportEndpoint, "SetAVTransportURI"),
                      ThrowReply} :
          LET r == executeActionV6(AVTransportEndpoint, "SetAVTransportURI",
                                   args, reply) IN
          /\ Call("override", joinerIndex, "SetAVTransportURI",
                  r.err = "none", NoVolume)
          /\ IF r.err = "none"
             THEN /\ transport' =
                       [transport EXCEPT ![joinerIndex] =
                          PlayerSetURI(@, PlayerDecode(args.CurrentURI),
                                       PlayerDecode(args.CurrentURIMetaData))]
                  /\ pc' = "Play"
             ELSE Raised /\ UNCHANGED transport
  /\ UNCHANGED <<op, members, options, volume, muted, snapshot, index,
                 waitInMilliseconds, request, result, posts, response,
                 before, topologyVars, input, suspended, nodeState>>

\* lines 261-263
JoinerPlayNotification ==
  /\ JoinerNotifying /\ pc = "Play"
  /\ \E reply \in {GoodReply(AVTransportEndpoint, "Play"), ThrowReply} :
       LET r == executeActionV6(AVTransportEndpoint, "Play",
                                [InstanceID |-> "0", Speed |-> "1"],
                                reply) IN
       /\ Call("override", joinerIndex, "Play", r.err = "none", NoVolume)
       /\ IF r.err = "none"
          THEN /\ transport' = [transport EXCEPT ![joinerIndex].state =
                                  "playing"]
               /\ pc' = "setVolume"
          ELSE Raised /\ UNCHANGED transport
  /\ UNCHANGED <<op, members, options, volume, muted, snapshot, index,
                 waitInMilliseconds, request, result, posts, response,
                 before, topologyVars, input, suspended, nodeState>>

\* lines 265-267
JoinerSetVolume ==
  /\ JoinerNotifying /\ pc = "setVolume"
  /\ IF options.volume # -1
     THEN \E good \in BOOLEAN :
            /\ Call("override", joinerIndex, "setVolume", good,
                    options.volume)
            /\ IF good
               THEN /\ volume' =
                         [volume EXCEPT ![joinerIndex] = options.volume]
                    /\ pc' = "waitPositionInfo"
               ELSE Raised /\ UNCHANGED volume
     ELSE pc' = "waitPositionInfo" /\ UNCHANGED <<volume, calls>>
  /\ UNCHANGED <<op, members, options, muted, transport, snapshot, index,
                 waitInMilliseconds, request, result, posts, response,
                 before, topologyVars, input, suspended, nodeState>>

\* lines 271-280: the joiner reports the duration of the clip, or none
JoinerEstimateDuration ==
  /\ JoinerNotifying /\ pc = "waitPositionInfo"
  /\ IF options.automaticDuration
     THEN \E good \in BOOLEAN, TrackDuration \in ClipDurations :
            /\ Call("wait", joinerIndex, "GetPositionInfo", good,
                    IF good THEN TrackDuration ELSE NoDuration)
            /\ IF good
               THEN /\ waitInMilliseconds' =
                         EstimatedWait(TrackDuration, options.duration)
                    /\ pc' = "setTimeout"
               ELSE Raised /\ UNCHANGED waitInMilliseconds
     ELSE /\ waitInMilliseconds' = hhmmss2msec(options.duration)
          /\ pc' = "setTimeout"
          /\ UNCHANGED calls
  /\ UNCHANGED <<op, members, options, volume, muted, transport, snapshot,
                 index, request, result, posts, response, before,
                 topologyVars, input, suspended, nodeState>>

\* line 282: the timer fires; the clip may have come to its end meanwhile
JoinerWait ==
  /\ JoinerNotifying /\ pc = "setTimeout"
  /\ \E ended \in BOOLEAN :
       transport' = [transport EXCEPT ![joinerIndex].state =
                       IF ended THEN "stopped" ELSE @]
  /\ pc' = "restoreVolume"
  /\ UNCHANGED <<op, members, options, volume, muted, snapshot, index,
                 waitInMilliseconds, calls, request, result, posts, response,
                 before, topologyVars, input, suspended, nodeState>>

\* lines 286-288
JoinerRestoreVolume ==
  /\ JoinerNotifying /\ pc = "restoreVolume"
  /\ IF options.volume # -1
     THEN \E good \in BOOLEAN :
            /\ Call("restore", joinerIndex, "setVolume", good,
                    snapshot.memberVolumes[joinerIndex])
            /\ IF good
               THEN /\ volume' =
                         [volume EXCEPT ![joinerIndex] =
                            snapshot.memberVolumes[joinerIndex]]
                    /\ pc' = "restoreURI"
               ELSE Raised /\ UNCHANGED volume
     ELSE pc' = "restoreURI" /\ UNCHANGED <<volume, calls>>
  /\ UNCHANGED <<op, members, options, muted, transport, snapshot, index,
                 waitInMilliseconds, request, result, posts, response,
                 before, topologyVars, input, suspended, nodeState>>

\* lines 289-293
JoinerRestoreURI ==
  /\ JoinerNotifying /\ pc = "restoreURI"
  /\ \E good \in BOOLEAN :
       /\ Call("restore", joinerIndex, "setAVTransportURI", good, NoVolume)
       /\ IF good
          THEN /\ transport' =
                    [transport EXCEPT ![joinerIndex] =
                       PlayerSetAVTransportURI(@,
                         [uri |-> snapshot.mediaInfo.CurrentURI,
                          metadata |-> snapshot.mediaInfo.CurrentURIMetaData,
                          onlySetUri |-> TRUE])]
               /\ pc' = "play"
          ELSE Raised /\ UNCHANGED transport
  /\ UNCHANGED <<op, members, options, volume, muted, snapshot, index,
                 waitInMilliseconds, request, result, posts, response,
                 before, topologyVars, input, suspended, nodeState>>

\* lines 294-296
JoinerResumePlay ==
  /\ JoinerNotifying /\ pc = "play"
  /\ IF snapshot.wasPlaying
     THEN \E good \in BOOLEAN :
            /\ Call("restore", joinerIndex, "play", good,
                    NoVolume)
            /\ IF good
               THEN /\ transport' =
                         [transport EXCEPT ![joinerIndex].state = "playing"]
                    /\ pc' = "returned"
               ELSE Raised /\ UNCHANGED transport
     ELSE pc' = "returned" /\ UNCHANGED <<transport, calls>>
  /\ UNCHANGED <<op, members, options, volume, muted, snapshot, index,
                 waitInMilliseconds, request, result, posts, response,
                 before, topologyVars, input, suspended, nodeState>>

\* the steps of playJoinerNotification
JoinerNext ==
  \/ JoinerGetCurrentState \/ JoinerGetMediaInfo \/ JoinerGetVolume
  \/ JoinerSetNotificationURI \/ JoinerPlayNotification \/ JoinerSetVolume
  \/ JoinerEstimateDuration \/ JoinerWait \/ JoinerRestoreVolume
  \/ JoinerRestoreURI \/ JoinerResumePlay

\* ------------------------------------- two calls of playGroupNotification
\* lines 112-205: at every await the event loop may go on with the other
\* call, which has its own options, snapshot, loop variable and delay; the
\* players are the same. The calls take turns at most MaxSwitches times.
ResumeOther ==
  /\ Notifying /\ suspended.call # 0
  /\ suspended.pc \notin {"returned", "raised"}
  /\ suspended.switches < MaxSwitches
  /\ pc' = suspended.pc
  /\ options' = suspended.options
  /\ snapshot' = suspended.snapshot
  /\ index' = suspended.index
  /\ waitInMilliseconds' = suspended.waitInMilliseconds
  /\ suspended' = [call |-> CurrentCall, pc |-> pc, options |-> options,
                   snapshot |-> snapshot, index |-> index,
                   waitInMilliseconds |-> waitInMilliseconds,
                   switches |-> suspended.switches + 1]
  /\ UNCHANGED <<op, members, volume, muted, transport, calls, request,
                 result, posts, response, before, topologyVars, input,
                 nodeState>>

\* ------------------------------------------------- SonosManageMySonosNode
\* Soap.js holds the My Sonos node twice, lines 179-268 and lines 639-766;
\* input.version tells which of the two is constructed.
ConstructingNode == op = "SonosManageMySonosNode"

\* Extensions.failure: the node shows an error
failure(node) == [node EXCEPT !.status = "error"]

\* the handler is registered whatever the check says
RegisterAlways(createNodeOn) == TRUE

\* lines 196 and 679: if (isSonos), if (createNodeOn)
RegisterOn(createNodeOn) == createNodeOn

\* lines 199-216, 236-253, 681-698 and 734-751: node.on('input', ...) and
\* the status 'ok:ready'
Subscribed(node, outcome) ==
  [node EXCEPT !.registered = TRUE, !.status = "ok:ready", !.check = outcome]

\* lines 188-189, 227-228 and 263-266: the configured address or serial number
\* decides which check is started, or that none is (first version)
ConstructFirstVersion ==
  /\ ConstructingNode /\ pc = "construct" /\ input.version = 1
  /\ IF NotEmptyString(input.ipaddress) /\ REGEX_IP(input.ipaddress)
     THEN pc' = "decideCreateNodeOn" /\ UNCHANGED nodeState
     ELSE IF NotEmptyString(input.serialnum)
               /\ REGEX_SERIAL(input.serialnum)
     THEN pc' = "discover" /\ UNCHANGED nodeState
     ELSE pc' = "constructed" /\ nodeState' = failure(nodeState)
  /\ UNCHANGED <<op, members, options, volume, muted, transport, snapshot,
                 index, waitInMilliseconds, calls, request, result, posts,
                 response, before, topologyVars, input, suspended>>

\* lines 653-671, 719-727 and 761-764 (second version): an address that is
\* no IPv4 address may be a DNS name, and the serial number is looked at only
\* without an address
ConstructSecondVersion ==
  /\ ConstructingNode /\ pc = "construct" /\ input.version = 2
  /\ IF NotEmptyString(input.ipaddress)
     THEN IF REGEX_IP(input.ipaddress)
          THEN pc' = "decideCreateNodeOn" /\ UNCHANGED nodeState
          ELSE IF REGEX_DNS(input.ipaddress)
          THEN pc' = "resolve4" /\ UNCHANGED nodeState
          ELSE pc' = "constructed" /\ nodeState' = failure(nodeState)
     ELSE IF NotEmptyString(input.serialnum)
     THEN IF ~REGEX_SERIAL(input.serialnum)
          THEN pc' = "constructed" /\ nodeState' = failure(nodeState)
          ELSE pc' = "discover" /\ UNCHANGED nodeState
     ELSE pc' = "constructed" /\ nodeState' = failure(nodeState)
  /\ UNCHANGED <<op, members, options, volume, muted, transport, snapshot,
                 index, waitInMilliseconds, calls, request, result, posts,
                 response, before, topologyVars, input, suspended>>

\* lines 663 and 712-717: dnsPromises.resolve4 answers or rejects
Resolve4 ==
  /\ ConstructingNode /\ pc = "resolve4"
  /\ \E good \in BOOLEAN :
       IF good
       THEN pc' = "decideCreateNodeOn" /\ UNCHANGED nodeState
       ELSE /\ pc' = "constructed"
            /\ nodeState' = [failure(nodeState) EXCEPT !.check = "rejected"]
  /\ UNCHANGED <<op, members, options, volume, muted, transport, snapshot,
                 index, waitInMilliseconds, calls, request, result, posts,
                 response, before, topologyVars, input, suspended>>

\* lines 194-225 and 676-710: decideCreateNodeOn resolves to true or false,
\* or rejects
DecideCreateNodeOn ==
  /\ ConstructingNode /\ pc = "decideCreateNodeOn"
  /\ \E outcome \in {"true", "false", "rejected"} :
       nodeState' =
         IF outcome = "rejected"
         THEN [nodeState EXCEPT !.status = "error: went wrong",
                                !.check = outcome]
         ELSE IF RegisterOn(outcome = "true")
         THEN Subscribed(nodeState, outcome)
         ELSE [nodeState EXCEPT !.status = "error: not reachable",
                                !.check = outcome]
  /\ pc' = "constructed"
  /\ UNCHANGED <<op, members, options, volume, muted, transport, snapshot,
                 index, waitInMilliseconds, calls, request, result, posts,
                 response, before, topologyVars, input, suspended>>

\* lines 230-261 and 728-759: discoverSpecificSonosPlayerBySerial finds the
\* player or rejects
Discover ==
  /\ ConstructingNode /\ pc = "discover"
  /\ \E outcome \in {"discovered", "rejected"} :
       nodeState' =
         IF outcome = "discovered"
         THEN Subscribed(nodeState, outcome)
         ELSE [failure(nodeState) EXCEPT !.check = outcome]
  /\ pc' = "constructed"
  /\ UNCHANGED <<op, members, options, volume, muted, transport, snapshot,
                 index, waitInMilliseconds, calls, request, result, posts,
                 response, before, topologyVars, input, suspended>>

\* a message arrives at the node, before or after its check has ended: the
\* registered handler calls processInputMsg (lines 201, 238, 683 and 736),
\* without a
\* handler nothing is called
InputMessage ==
  /\ ConstructingNode /\ pc # "construct"
  /\ nodeState.received < MaxMessages
  /\ nodeState' =
       [nodeState EXCEPT !.received = @ + 1,
                         !.handled = IF nodeState.registered THEN @ + 1 ELSE @]
  /\ UNCHANGED <<op, pc, members, options, volume, muted, transport,
                 snapshot, index, waitInMilliseconds, calls, request, result,
                 posts, response, before, topologyVars, input, suspended>>

MySonosNodeNext ==
  \/ ConstructFirstVersion \/ ConstructSecondVersion \/ Resolve4
  \/ DecideCreateNodeOn \/ Discover \/ InputMessage

\* ------------------------------------------------------ mysonosStreamItem
\* Soap.js holds the function twice, lines 552-580 and lines 1051-1079, with
\* the same statements.
Streaming == op = "mysonosStreamItem"

\* lines 562-564: the first item whose title includes the search string and
\* that is a stream, 0 for -1
FoundIndex(mySonosItems, validSearch) ==
  LET Found(i) == /\ Includes(mySonosItems[i].title, validSearch)
                  /\ mySonosItems[i].processingType = "stream"
  IN IF \E i \in DOMAIN mySonosItems : Found(i)
     THEN CHOOSE i \in DOMAIN mySonosItems :
            Found(i) /\ \A j \in 1..(i - 1) : ~Found(j)
     ELSE 0

\* lines 554-568: the search string is validated, the items are fetched and
\* the item is looked up
StreamGetMySonos ==
  /\ Streaming /\ pc = "getMySonos"
  /\ LET validSearch == validRegex(input.payload) IN
     IF validSearch.err # "none"
     THEN /\ result' = validSearch /\ Raised /\ UNCHANGED index
     ELSE \E outcome \in {"throw", "undefined", "items"} :
            IF outcome = "throw"
            THEN /\ result' = Raise("getMySonos", TRUE) /\ Raised
                 /\ UNCHANGED index
            ELSE IF outcome = "undefined"
            THEN /\ result' = Raise("could not find any My Sonos items", TRUE)
                 /\ Raised /\ UNCHANGED index
            ELSE IF FoundIndex(input.mySonosItems, validSearch.value) = 0
            THEN /\ result' = Raise("no title matching search string", TRUE)
                 /\ Raised /\ UNCHANGED index
            ELSE /\ index' = FoundIndex(input.mySonosItems, validSearch.value)
                 /\ pc' = "SetAVTransportURI"
                 /\ UNCHANGED result
  /\ UNCHANGED <<op, members, options, volume, muted, transport, snapshot,
                 waitInMilliseconds, calls, request, posts, response, before,
                 topologyVars, input, suspended, nodeState>>

\* line 570
StreamSetAVTransportURI ==
  /\ Streaming /\ pc = "SetAVTransportURI"
  /\ \E good \in BOOLEAN :
       /\ Call("stream", coordinatorIndex, "SetAVTransportURI", good, NoVolume)
       /\ IF good
          THEN /\ transport' =
                    [transport EXCEPT ![coordinatorIndex] =
                       PlayerSetURI(@, input.mySonosItems[index].uri,
                                    NoMetadata)]
               /\ pc' = "SetVolume"
               /\ UNCHANGED result
          ELSE /\ result' = Raise("SetAVTransportURI", TRUE) /\ Raised
               /\ UNCHANGED transport
  /\ UNCHANGED <<op, members, options, volume, muted, snapshot, index,
                 waitInMilliseconds, request, posts, response, before,
                 topologyVars, input, suspended, nodeState>>

\* lines 573-576
StreamSetVolume ==
  /\ Streaming /\ pc = "SetVolume"
  /\ LET newVolume == validToInteger(input, 0, 100, -1) IN
     IF newVolume.err # "none"
     THEN /\ result' = newVolume /\ Raised /\ UNCHANGED <<volume, calls>>
     ELSE IF newVolume.value # -1
     THEN \E good \in BOOLEAN :
            /\ Call("stream", coordinatorIndex, "SetVolume", good,
                    newVolume.value)
            /\ IF good
               THEN /\ volume' = [volume EXCEPT ![coordinatorIndex] =
                                    newVolume.value]
                    /\ pc' = "Play"
                    /\ UNCHANGED result
               ELSE /\ result' = Raise("SetVolume", TRUE) /\ Raised
                    /\ UNCHANGED volume
     ELSE pc' = "Play" /\ UNCHANGED <<volume, calls, result>>
  /\ UNCHANGED <<op, members, options, muted, transport, snapshot, index,
                 waitInMilliseconds, request, posts, response, before,
                 topologyVars, input, suspended, nodeState>>

\* the function waits for the answer to Play
PlayAwaited == TRUE

\* line 577: tsPlayer.Play() stands without await
AwaitsPlay == FALSE

\* lines 577-579: Play is sent and the function returns {}
StreamPlay ==
  /\ Streaming /\ pc = "Play"
  /\ nodeState' = [nodeState EXCEPT !.play = "pending"]
  /\ IF AwaitsPlay
     THEN pc' = "Play.await" /\ UNCHANGED result
     ELSE pc' = "returned" /\ result' = Return(<<>>, TRUE)
  /\ UNCHANGED <<op, members, options, volume, muted, transport, snapshot,
                 index, waitInMilliseconds, calls, request, posts, response,
                 before, topologyVars, input, suspended>>

\* the player answers the Play that was sent; nothing of the function is
\* left to take the answer unless it waits for it
PlayAnswered ==
  /\ Streaming /\ nodeState.play = "pending"
  /\ \E good \in BOOLEAN :
       /\ nodeState' = [nodeState EXCEPT !.play =
                          IF good THEN "ok" ELSE "failed"]
       /\ transport' = [transport EXCEPT ![coordinatorIndex].state =
                          IF good THEN "playing" ELSE @]
       /\ IF pc = "Play.await"
          THEN IF good
               THEN pc' = "returned" /\ result' = Return(<<>>, TRUE)
               ELSE result' = Raise("Play", TRUE) /\ Raised
          ELSE UNCHANGED <<pc, result>>
  /\ UNCHANGED <<op, members, options, volume, muted, snapshot, index,
                 waitInMilliseconds, calls, request, posts, response, before,
                 topologyVars, input, suspended>>

StreamItemNext ==
  \/ StreamGetMySonos \/ StreamSetAVTransportURI \/ StreamSetVolume
  \/ StreamPlay \/ PlayAnswered

\* -------------------------------------------------------- sendSoapToPlayer
\* lines 36-63: the message is built and posted
PostSoap ==
  /\ op = "sendSoapToPlayer" /\ pc = "request"
  /\ request' = SoapMessage(input.serviceName, input.actionName, input.args)
  /\ posts' = posts + 1
  /\ pc' = "response"
  /\ UNCHANGED <<op, members, options, volume, muted, transport, snapshot,
                 index, waitInMilliseconds, calls, result, response, before,
                 topologyVars, input, suspended, nodeState>>

\* lines 64-103: the request is answered or rejected
SoapAnswered ==
  /\ op = "sendSoapToPlayer" /\ pc = "response"
  /\ \/ /\ response' = [kind |-> "response", headers |-> "headers",
                         data |-> "data", status |-> 200]
        /\ result' = Return([type |-> "object",
                             v |-> [headers |-> response'.headers,
                                    body |-> response'.data,
                                    statusCode |-> response'.status]], TRUE)
        /\ pc' = "returned"
     \/ \E error \in RequestErrors :
          /\ response' = [kind |-> "error", error |-> error]
          /\ result' = CatchRequestError(error, input.serviceName)
          /\ pc' = "raised"
  /\ UNCHANGED <<op, members, options, volume, muted, transport, snapshot,
                 index, waitInMilliseconds, calls, request, posts, before,
                 topologyVars, input, suspended, nodeState>>

\* the steps of playGroupNotification
NotificationNext ==
  \/ GetCurrentState
  \/ GetMediaInfo
  \/ GetPositionInfo
  \/ SnapCoordinatorVolume
  \/ SnapMemberVolume
  \/ SetNotificationURI
  \/ SetCoordinatorVolume
  \/ SetMemberVolume
  \/ PlayNotification
  \/ EstimateDuration
  \/ Wait
  \/ RestoreCoordinatorVolume
  \/ RestoreMemberVolume
  \/ RestoreURI
  \/ SelectTrack
  \/ SeekRelTime
  \/ ResumePlay

\* the steps of createGroupSnapshot and restoreGroupSnapshot
GroupSnapshotNext ==
  \/ CreateGetVolume
  \/ CreateGetMuted
  \/ CreateGetPlayback
  \/ OtherController
  \/ RestoreSetURI
  \/ RestoreSelectTrack
  \/ RestoreSeek
  \/ RestoreSetVolume
  \/ RestoreSetMuted

\* the steps of executeActionV6
ExecuteActionNext ==
  \/ ValidateAndSend
  \/ ReceiveResponse

\* the steps of getGroupMemberDataV2
GroupMemberDataNext ==
  \/ GetAllGroups
  \/ SortAndReturn

\* the step of getAllPlayerList
AllPlayerListNext == ListPlayers

\* the step of getMusicServiceId
MusicServiceIdNext == GetMusicServiceId

\* the step of didlXmlToArray
DidlNext == DidlXmlToArray

\* the steps of getMySonosV3
MySonosNext == BrowseFavourites \/ BrowsePlaylists

\* the steps of sendSoapToPlayer
SoapNext == PostSoap \/ SoapAnswered

OverlapNext == NotificationNext \/ ResumeOther

Next ==
  \/ StreamItemNext
  \/ MySonosNodeNext
  \/ ResumeOther
  \/ SoapNext
  \/ JoinerNext
  \/ MySonosNext
  \/ DidlNext
  \/ MusicServiceIdNext
  \/ AllPlayerListNext
  \/ NotificationNext
  \/ GroupSnapshotNext
  \/ ExecuteActionNext
  \/ GroupMemberDataNext

Spec == Init /\ [][Next]_vars

\* one operation at a time
NotificationSpec == NotificationInit /\ [][NotificationNext]_vars

MySonosNodeSpec == MySonosNodeInit /\ [][MySonosNodeNext]_vars

StreamItemSpec == StreamItemInit /\ [][StreamItemNext]_vars

\* two calls of playGroupNotification that overlap
OverlapSpec == OverlapInit /\ [][OverlapNext]_vars

GroupSnapshotSpec == GroupSnapshotInit /\ [][GroupSnapshotNext]_vars

ExecuteActionSpec == ExecuteActionInit /\ [][ExecuteActionNext]_vars

GroupMemberDataSpec == GroupMemberDataInit /\ [][GroupMemberDataNext]_vars

AllPlayerListSpec == AllPlayerListInit /\ [][AllPlayerListNext]_vars

MusicServiceIdSpec == MusicServiceIdInit /\ [][MusicServiceIdNext]_vars

DidlSpec == DidlInit /\ [][DidlNext]_vars

MySonosSpec == MySonosInit /\ [][MySonosNext]_vars

JoinerSpec == JoinerInit /\ [][JoinerNext]_vars

SoapSpec == SoapInit /\ [][SoapNext]_vars

\* the two operations that capture and restore the playback state
SnapshotRestoreSpec ==
  (NotificationInit \/ GroupSnapshotInit)
    /\ [][NotificationNext \/ GroupSnapshotNext]_vars

\* the two operations that play a notification
NotificationsSpec ==
  (NotificationInit \/ JoinerInit)
    /\ [][NotificationNext \/ JoinerNext]_vars

\* every request to a player is answered and every timer fires: a call that
\* can take its next step takes it
\* The calls start with every member at the same volume and the coordinator
\* on the last track at a known position.
NotificationsFairInit ==
  /\ NotificationInit \/ JoinerInit
  /\ \A m \in Members : volume[m] = 20
  /\ transport[coordinatorIndex].track = transport[coordinatorIndex].nrTracks
  /\ transport[coordinatorIndex].relTime # NoDuration

NotificationsFairSpec ==
  /\ NotificationsFairInit
  /\ [][NotificationNext \/ JoinerNext]_vars
  /\ WF_vars(NotificationNext \/ JoinerNext)

\* =================================================================== claims
Finished == pc \in {"returned", "raised"}

NoFailure == \A i \in DOMAIN calls : calls[i].ok

Issued(phase, name) ==
  {i \in DOMAIN calls : calls[i].phase = phase /\ calls[i].op = name}

Succeeded(phase, name) == {i \in Issued(phase, name) : calls[i].ok}

Failed == {i \in DOMAIN calls : ~calls[i].ok}

MarkerIn(uri) == Includes(uri, VliMarker)

\* the coordinator carries what GetMediaInfo returned in the snapshot step
OriginalContentBack ==
  /\ transport[coordinatorIndex].uri = snapshot.mediaInfo.CurrentURI
  /\ transport[coordinatorIndex].meta = snapshot.mediaInfo.CurrentURIMetaData

IdleScenario ==
  /\ Notifying /\ pc = "returned"
  /\ options.volume = -1 /\ ~options.sameVolume
  /\ ~options.automaticDuration
  /\ ~snapshot.wasPlaying
  /\ NoFailure

ReadInSnapshot(member, vol) ==
  \E i \in Succeeded("snapshot", "getVolume") :
    calls[i].member = member /\ calls[i].vol = vol

\* C2: with sameVolume and a volume override v on a group of two or more,
\* every member is at v when Play is issued, and on return every member is
\* at the volume that was read from that member in the snapshot step.
C2_SameVolume ==
  (Notifying /\ members >= 2 /\ options.sameVolume /\ options.volume # -1) =>
    /\ pc = "Play" => \A m \in Members : volume[m] = options.volume
    /\ Issued("override", "Play") # {} =>
         \A m \in Members :
           \E i \in Succeeded("override", "setVolume") :
             calls[i].member = m /\ calls[i].vol = options.volume
    /\ pc = "returned" => \A m \in Members : ReadInSnapshot(m, volume[m])

C2_Witness ==
  /\ Notifying /\ members >= 2 /\ options.sameVolume /\ options.volume # -1
  /\ pc = "returned"
  /\ \E m \in Members : volume[m] # volume[coordinatorIndex]
  /\ \A m \in Members : volume[m] # options.volume

NotificationSet == Succeeded("override", "SetAVTransportURI") # {}

\* C3 as stated: once the notification URI is set, the call does not finish
\* without having reapplied the original URI, whichever restore step fails
\* (volume restore, track reselect, seek), for restorable notification content.
C3_Original ==
  ( /\ Notifying /\ Finished /\ NotificationSet
    /\ ~MarkerIn(options.uri)
    /\ \A i \in Failed :
         /\ calls[i].phase = "restore"
         /\ calls[i].op \in {"setVolume", "selectTrack", "Seek"} )
  => Succeeded("restore", "setAVTransportURI") # {}

\* C3 amended: the same for a failing track reselect or seek only; a failing
\* volume restore ends the call with an error before the URI is reapplied.
C3_PartialFailureRestore ==
  /\ ( /\ Notifying /\ Finished /\ NotificationSet
       /\ ~MarkerIn(options.uri)
       /\ \A i \in Failed :
            /\ calls[i].phase = "restore"
            /\ calls[i].op \in {"selectTrack", "Seek"} )
     => /\ Succeeded("restore", "setAVTransportURI") # {}
        /\ OriginalContentBack
  /\ ( /\ Notifying
       /\ \E i \in Failed :
            calls[i].phase = "restore" /\ calls[i].op = "setVolume" )
     => /\ pc = "raised"
        /\ Issued("restore", "setAVTransportURI") = {}
        /\ transport[coordinatorIndex].uri = options.uri

C3_Witness ==
  /\ Notifying /\ pc = "returned" /\ ~MarkerIn(options.uri)
  /\ \E i \in Failed : calls[i].op = "selectTrack"
  /\ \E i \in Failed : calls[i].op = "Seek"
  /\ OriginalContentBack

PastReapplication ==
  Notifying /\ pc \in {"selectTrack", "Seek", "play", "returned"}

\* C4: the reapplication of the URI is skipped exactly when the URI captured
\* in the snapshot contains the session-bound marker, whatever the
\* notification URI is.
C4_GateOnCapturedURI ==
  PastReapplication =>
    (Issued("restore", "setAVTransportURI") = {}
       <=> MarkerIn(snapshot.mediaInfo.CurrentURI))

\* C5: when the reapplication of the URI is skipped, neither a track reselect
\* nor a seek is issued in the restore phase.
C5_SkippedTogether ==
  (Notifying /\ Issued("restore", "setAVTransportURI") = {}) =>
    /\ Issued("restore", "selectTrack") = {}
    /\ Issued("restore", "Seek") = {}

\* C6: the final play is issued exactly when the state read in the snapshot
\* step was playing or transitioning and the captured content is restorable.
C6_ResumeExactly ==
  (Notifying /\ pc = "returned") =>
    (Issued("restore", "play") # {}
       <=> (snapshot.wasPlaying /\ ~MarkerIn(snapshot.mediaInfo.CurrentURI)))

BestEffort == {"selectTrack", "Seek"}

\* the requests the code has still to issue after the best-effort steps
LaterStepsDone(i) ==
  IF Notifying
  THEN (snapshot.wasPlaying /\ ~MarkerIn(options.uri)) =>
         \E j \in Issued("restore", "play") : j > i
  ELSE \A m \in Members :
         /\ snapshot.memberData[m].volume # -1 =>
              \E j \in Issued("restore", "setVolume") :
                j > i /\ calls[j].member = m
         /\ snapshot.memberData[m].mutestate # "null" =>
              \E j \in Issued("restore", "setMuted") :
                j > i /\ calls[j].member = m

\* C7: a failing track reselect or seek, in restoreGroupSnapshot and in the
\* restore phase of playGroupNotification, does not end the operation: it
\* raises only if a later request that is not best-effort fails, and when
\* it returns every later step has been executed.
C7_BestEffortSwallowed ==
  \A i \in Failed :
    (calls[i].phase = "restore" /\ calls[i].op \in BestEffort) =>
      /\ pc = "raised" =>
           \E j \in Failed : j > i /\ calls[j].op \notin BestEffort
      /\ pc = "returned" => LaterStepsDone(i)
      /\ (\A j \in Failed : calls[j].op \in BestEffort) => pc # "raised"

C7_Witness ==
  /\ Snapshotting /\ pc = "returned"
  /\ \E i \in Failed : calls[i].op = "selectTrack"
  /\ \E i \in Failed : calls[i].op = "Seek"
  /\ Issued("restore", "setVolume") # {}
  /\ Issued("restore", "setMuted") # {}

\* C8: in restoreGroupSnapshot a failing setVolume or setMuted ends the call
\* with an error: true is not returned and no request follows the failed one.
C8_VolumeFailurePropagates ==
  Snapshotting =>
    \A i \in Failed :
      (calls[i].phase = "restore" /\ calls[i].op \in {"setVolume", "setMuted"})
        => pc = "raised" /\ i = Len(calls)

C8_Witness ==
  /\ Snapshotting /\ pc = "raised" /\ members >= 2
  /\ \E i \in Failed :
       /\ calls[i].phase = "restore" /\ calls[i].op = "setVolume"
       /\ calls[i].member = coordinatorIndex
  /\ \A m \in Members : snapshot.memberData[m].volume # -1

KnownTemplate ==
  /\ request.endpoint \in DOMAIN ACTIONS_TEMPLATESV6
  /\ request.actionName \in DOMAIN ACTIONS_TEMPLATESV6[request.endpoint]

RequiredInputs ==
  Range(ACTIONS_TEMPLATESV6[request.endpoint][request.actionName].inArgs)

\* C9: an argument map that lacks a required input name makes executeActionV6
\* raise the missing-argument error without any call of the transport; an
\* argument that is present with the empty string as value is not missing.
C9_MissingArgument ==
  (Executing /\ KnownTemplate /\ pc # "executeActionV6") =>
    /\ (RequiredInputs \ DOMAIN request.actionInArgs # {}) =>
         /\ pc = "raised"
         /\ result.err = "property is missing"
         /\ posts = 0
    /\ (RequiredInputs \subseteq DOMAIN request.actionInArgs) =>
         /\ result.err # "property is missing"
         /\ posts = 1

C9_Witness ==
  /\ Executing /\ KnownTemplate /\ pc = "raised"
  /\ result.err = "property is missing"
  /\ \E name \in RequiredInputs \cap DOMAIN request.actionInArgs :
       request.actionInArgs[name] = ""
  /\ posts = 0

\* C10: an endpoint or action name without a template makes executeActionV6
\* fail before any call of the transport, with an error that no other
\* failure of executeActionV6 produces.
C10_UnknownTemplate ==
  (Executing /\ pc # "executeActionV6") =>
    /\ ~KnownTemplate =>
         pc = "raised" /\ result.err = "TypeError" /\ posts = 0
    /\ KnownTemplate => result.err # "TypeError"

C10_Witness ==
  /\ Executing /\ pc = "raised" /\ result.err = "TypeError"
  /\ request.endpoint \in DOMAIN ACTIONS_TEMPLATESV6
  /\ request.actionName \notin DOMAIN ACTIONS_TEMPLATESV6[request.endpoint]
  /\ posts = 0

ExpectedOutputs ==
  ACTIONS_TEMPLATESV6[request.endpoint][request.actionName].outArgs

\* the reply has status 200, a body that parses, the response node of the
\* action and the namespace of the service
AcceptableEnvelope ==
  /\ response.kind = "response"
  /\ response.hasStatusCode /\ response.statusCode = 200
  /\ response.hasBody /\ response.wellFormed
  /\ response.node = request.actionName
  /\ "xmlns:u" \in DOMAIN response.result
  /\ response.result["xmlns:u"] =
       ExpectedResponseValue(ServiceNameOf(request.endpoint))

WellFormedResponse ==
  /\ AcceptableEnvelope
  /\ Range(ExpectedOutputs) \subseteq DOMAIN response.result

Answered == Executing /\ KnownTemplate /\ pc \in {"returned", "raised"}
                      /\ posts = 1

\* C11: for a valid request and a well-formed response, executeActionV6
\* returns true when the template expects no output, and otherwise hands out
\* the expected outputs only (the value of the single one, or a map whose key
\* set is exactly the expected names): neither the namespace attribute nor
\* any other key of the response node is in the result.
C11_ExactOutputs ==
  (Answered /\ WellFormedResponse) =>
    /\ pc = "returned"
    /\ Len(ExpectedOutputs) = 0 =>
         result.value = [type |-> "boolean", v |-> TRUE]
    /\ Len(ExpectedOutputs) = 1 => result.value.type = "scalar"
    /\ Len(ExpectedOutputs) > 1 =>
         /\ result.value.type = "object"
         /\ DOMAIN result.value.v = Range(ExpectedOutputs)

\* C12: one expected output is returned as its value, two or more as the
\* output map, and a response that lacks an expected output name raises the
\* missing-response-property error instead of returning a partial map.
C12_UnwrapOrMap ==
  (Answered /\ AcceptableEnvelope) =>
    /\ (Len(ExpectedOutputs) = 1 /\ WellFormedResponse) =>
         /\ pc = "returned"
         /\ result.value =
              [type |-> "scalar", v |-> response.result[ExpectedOutputs[1]]]
    /\ (Len(ExpectedOutputs) > 1 /\ WellFormedResponse) =>
         /\ pc = "returned"
         /\ result.value.type = "object"
         /\ \A name \in Range(ExpectedOutputs) :
              /\ name \in DOMAIN result.value.v
              /\ result.value.v[name] = response.result[name]
    /\ ~WellFormedResponse =>
         /\ pc = "raised"
         /\ result.err = "response property is missing"

C12_Witness ==
  /\ Answered /\ WellFormedResponse /\ pc = "returned"
  /\ Len(ExpectedOutputs) = 1
  /\ result.value.type = "scalar"

\* C13: executeActionV6 returns only when the reply has status code 200, a
\* body, the response node of the action and the namespace of the service on
\* it, and raises otherwise; an invocation that passed the input validation
\* has made exactly one transport call when it finishes.
C13_ReturnOnlyOnValidReply ==
  (Executing /\ KnownTemplate /\ pc \in {"returned", "raised"}
             /\ ValidateRequest(request.endpoint, request.actionName,
                                request.actionInArgs) = "none") =>
    /\ posts = 1
    /\ pc = "returned" => AcceptableEnvelope
    /\ ~AcceptableEnvelope => pc = "raised" /\ result.err # "none"

C13_Witness ==
  /\ Answered /\ pc = "raised" /\ result.err = "unexpected response"
  /\ response.hasStatusCode /\ response.statusCode = 200
  /\ response.node = request.actionName
  /\ Range(ExpectedOutputs) \subseteq DOMAIN response.result

\* nobody but the two functions touched the players
Undisturbed == \A i \in DOMAIN calls : calls[i].phase # "between"

CallsTo(phase, name, member) ==
  {i \in Issued(phase, name) : calls[i].member = member}

\* C14: createGroupSnapshot followed by restoreGroupSnapshot, with no other
\* controller in between and no failing call, leaves every member's volume
\* and mute state and the coordinator's URI and metadata as they were before
\* the capture, whatever snapVolumes and snapMutestates are.
C14_RoundTrip ==
  (Snapshotting /\ pc = "returned" /\ NoFailure /\ Undisturbed) =>
    /\ volume = before.volume
    /\ muted = before.muted
    /\ transport[coordinatorIndex].uri = before.transport[coordinatorIndex].uri
    /\ transport[coordinatorIndex].meta =
         before.transport[coordinatorIndex].meta

C14_Witness ==
  /\ Snapshotting /\ pc = "returned" /\ NoFailure /\ Undisturbed
  /\ options.snapVolumes /\ options.snapMutestates
  /\ members > 1
  /\ \E m \in Members : muted[m]
  /\ \A m \in Members : CallsTo("restore", "setMuted", m) # {}
  /\ Succeeded("restore", "setAVTransportURI") # {}

TransportControl == {"play", "pause", "stop", "Play", "Pause", "Stop"}

\* C15: restoreGroupSnapshot issues no play, pause or stop, and the set-only
\* reapplication of the URI leaves the coordinator not playing, whatever
\* wasPlaying holds.
C15_NeverResumes ==
  Snapshotting =>
    /\ \A i \in DOMAIN calls :
         calls[i].phase = "restore" => calls[i].op \notin TransportControl
    /\ Succeeded("restore", "setAVTransportURI") # {} =>
         transport[coordinatorIndex].state # "playing"

C15_Witness ==
  /\ Snapshotting /\ pc = "returned"
  /\ snapshot.wasPlaying
  /\ Undisturbed
  /\ before.transport[coordinatorIndex].state = "playing"
  /\ transport[coordinatorIndex].state = "stopped"

SnapshotTaken ==
  /\ Snapshotting
  /\ pc \notin {"create.getVolume", "create.getMuted", "raised"}

\* C16: the snapshot holds for each member the volume read, or -1 when
\* snapVolumes is unset, and the mute state read, or null when snapMutestates
\* is unset; no getVolume or getMuted is issued for an unset option; the
\* restore issues setVolume and setMuted for a member exactly when the stored
\* value is not the sentinel, a stored volume of 0 included.
C16_Sentinels ==
  /\ (Snapshotting /\ ~options.snapVolumes) =>
       Issued("create", "getVolume") = {}
  /\ (Snapshotting /\ ~options.snapMutestates) =>
       Issued("create", "getMuted") = {}
  /\ SnapshotTaken =>
       \A m \in Members :
         /\ snapshot.memberData[m].volume =
              IF options.snapVolumes THEN before.volume[m] ELSE -1
         /\ snapshot.memberData[m].mutestate =
              IF ~options.snapMutestates THEN "null"
              ELSE IF before.muted[m] THEN "on" ELSE "off"
         /\ \A i \in CallsTo("restore", "setVolume", m) :
              /\ snapshot.memberData[m].volume # -1
              /\ calls[i].vol = snapshot.memberData[m].volume
         /\ CallsTo("restore", "setMuted", m) # {} =>
              snapshot.memberData[m].mutestate # "null"
  /\ (SnapshotTaken /\ pc = "returned") =>
       \A m \in Members :
         /\ snapshot.memberData[m].volume # -1 =>
              Cardinality(CallsTo("restore", "setVolume", m)) = 1
         /\ snapshot.memberData[m].mutestate # "null" =>
              Cardinality(CallsTo("restore", "setMuted", m)) = 1

C16_Witness ==
  /\ SnapshotTaken /\ pc = "returned"
  /\ options.snapVolumes /\ ~options.snapMutestates
  /\ \E m \in Members :
       /\ snapshot.memberData[m].volume = 0
       /\ \E i \in CallsTo("restore", "setVolume", m) :
            calls[i].ok /\ calls[i].vol = 0
  /\ Issued("restore", "setMuted") = {}

PlaybackReads == {"getCurrentState", "GetMediaInfo", "GetPositionInfo"}

\* C17: getCurrentState, GetMediaInfo and GetPositionInfo go to the member at
\* index 0 only, in createGroupSnapshot and in the snapshot step of
\* playGroupNotification, and what is stored is what the coordinator holds.
C17_CoordinatorOnly ==
  /\ \A i \in DOMAIN calls :
       calls[i].op \in PlaybackReads => calls[i].member = coordinatorIndex
  /\ (Snapshotting /\ pc = "created" /\ Undisturbed) =>
       /\ snapshot.playbackstate = transport[coordinatorIndex].state
       /\ snapshot.CurrentURI = transport[coordinatorIndex].uri
       /\ snapshot.RelTime = transport[coordinatorIndex].relTime
  /\ (Notifying /\ pc = "SetAVTransportURI") =>
       /\ snapshot.mediaInfo.CurrentURI = transport[coordinatorIndex].uri
       /\ snapshot.positionInfo.RelTime = transport[coordinatorIndex].relTime

C17_Witness ==
  /\ members > 1
  /\ \/ Snapshotting /\ pc = "created"
     \/ Notifying /\ pc = "SetAVTransportURI"
  /\ \A name \in PlaybackReads :
       \E i \in DOMAIN calls :
         calls[i].op = name /\ calls[i].ok
                           /\ calls[i].member = coordinatorIndex

Resolved == Resolving /\ pc = "returned"

Groups == allGroupsData.groups

\* the group whose id and name the answer carries
MatchedGroup ==
  CHOOSE g \in DOMAIN Groups : Groups[g].ID = result.value.v.groupId

FlaggedInvisible(member) == member.Invisible = "1"

\* the member at (g, m) is visible and is the player asked for
VisibleMatch(g, m) ==
  LET member == Groups[g].ZoneGroupMember[m] IN
  /\ ~FlaggedInvisible(member)
  /\ IF playerName # "" THEN member.ZoneName = playerName
     ELSE hostname(member.Location) = sonosPlayer.host

GroupsWithMatch ==
  {g \in DOMAIN Groups :
     \E m \in DOMAIN Groups[g].ZoneGroupMember : VisibleMatch(g, m)}

\* C18: the member at index 0 of the list getGroupMemberDataV2 returns has
\* the uuid the matched group declares as its Coordinator, in every topology
\* in which the call succeeds.
C18_CoordinatorFirst ==
  Resolved =>
    /\ Len(result.value.v.members) > 0
    /\ result.value.v.members[1].uuid = Groups[MatchedGroup].Coordinator

\* C19: the group returned is the first group, in scan order, that holds a
\* visible member with the given name (or, without a name, at the host of
\* the querying player), and the player index points at the first such
\* member of it; an invisible member never matches, and without a visible
\* match the call raises the player-not-found error.
C19_FirstVisibleMatch ==
  (Resolving /\ Finished /\ allGroupsData.kind = "array") =>
    IF GroupsWithMatch = {}
    THEN pc = "raised" /\ result.err = "could not find given player"
    ELSE LET g == CHOOSE x \in GroupsWithMatch :
                    \A y \in GroupsWithMatch : x <= y
             matches == {m \in DOMAIN Groups[g].ZoneGroupMember :
                           VisibleMatch(g, m)}
             first == CHOOSE m \in matches : \A k \in matches : m <= k
             answer == result.value.v
         IN /\ pc = "returned"
            /\ answer.groupId = Groups[g].ID
            /\ answer.playerIndex \in DOMAIN answer.members
            /\ answer.members[answer.playerIndex].uuid =
                 Groups[g].ZoneGroupMember[first].UUID

C19_Witness ==
  /\ Resolved /\ playerName # ""
  /\ MatchedGroup = 2
  /\ \E m \in DOMAIN Groups[1].ZoneGroupMember :
       /\ Groups[1].ZoneGroupMember[m].ZoneName = playerName
       /\ FlaggedInvisible(Groups[1].ZoneGroupMember[m])

\* where the member with this uuid stands in the matched group
DiscoveryIndex(uuid) ==
  CHOOSE m \in DOMAIN Groups[MatchedGroup].ZoneGroupMember :
    Groups[MatchedGroup].ZoneGroupMember[m].UUID = uuid

\* C20: the list returned holds no member that the topology flags as
\* invisible, holds every visible member of the matched group exactly once,
\* and holds the members other than the coordinator in discovery order.
C20_VisibleMembersInOrder ==
  Resolved =>
    LET group == Groups[MatchedGroup]
        list == result.value.v.members
        visible == {group.ZoneGroupMember[m].UUID :
                      m \in {k \in DOMAIN group.ZoneGroupMember :
                               ~FlaggedInvisible(group.ZoneGroupMember[k])}}
    IN /\ \A i \in DOMAIN list : list[i].uuid \in visible
       /\ \A uuid \in visible :
            Cardinality({i \in DOMAIN list : list[i].uuid = uuid}) = 1
       /\ \A i, j \in DOMAIN list :
            (/\ i < j
             /\ list[i].uuid # group.Coordinator
             /\ list[j].uuid # group.Coordinator) =>
              DiscoveryIndex(list[i].uuid) < DiscoveryIndex(list[j].uuid)

C20_Witness ==
  /\ Resolved
  /\ Len(Groups[MatchedGroup].ZoneGroupMember) = 3
  /\ FlaggedInvisible(Groups[MatchedGroup].ZoneGroupMember[2])
  /\ Groups[MatchedGroup].Coordinator =
       Groups[MatchedGroup].ZoneGroupMember[3].UUID
  /\ Len(result.value.v.members) = 2
  /\ result.value.v.members[1].uuid = Groups[MatchedGroup].Coordinator
  /\ result.value.v.members[2].uuid =
       Groups[MatchedGroup].ZoneGroupMember[1].UUID

Listed == Listing /\ pc = "returned"

\* the entries of the player list that stand for the member at (g, m)
EntriesOf(g, m) ==
  {i \in DOMAIN result.value.v :
     /\ result.value.v[i].uuid = Groups[g].ZoneGroupMember[m].UUID
     /\ result.value.v[i].groupIndex = g}

\* C21: getAllPlayerList returns every member without an invisibility flag
\* once, with its group index and with isCoordinator set exactly when its
\* uuid is the Coordinator of its group, and no member flagged invisible.
C21_VisiblePlayersOnly ==
  Listed =>
    \A g \in DOMAIN Groups : \A m \in DOMAIN Groups[g].ZoneGroupMember :
      LET member == Groups[g].ZoneGroupMember[m] IN
      IF FlaggedInvisible(member) THEN EntriesOf(g, m) = {}
      ELSE /\ Cardinality(EntriesOf(g, m)) = 1
           /\ \A i \in EntriesOf(g, m) :
                result.value.v[i].isCoordinator =
                  (member.UUID = Groups[g].Coordinator)

\* the positions, counted from 1, at which the marker starts in the text
Occurrences(text, marker) ==
  {i \in 1..(Len(text) - Len(marker) + 1) :
     SubSeq(text, i, i + Len(marker) - 1) = marker}

\* C25: getMusicServiceId returns what stands between '?sid=' and '&flags='
\* when both occur in that order, and the empty string when either marker
\* is absent from the URI.
C25_BetweenMarkers ==
  (op = "getMusicServiceId" /\ pc = "returned") =>
    LET sids == Occurrences(input.xuri, SidMarker)
        flags == Occurrences(input.xuri, FlagsMarker)
    IN /\ (sids = {} \/ flags = {}) => result.value.v = <<>>
       /\ \A i \in sids : \A j \in flags :
            i + Len(SidMarker) <= j =>
              result.value.v = SubSeq(input.xuri, i + Len(SidMarker), j - 1)

\* didlXmlToArray has finished
Parsed == op = "didlXmlToArray" /\ pc \in {"returned", "raised"}

\* the positions of the nodes named itemName in the document
Positions ==
  {i \in DOMAIN input.didlXml.nodes :
     input.didlXml.nodes[i].name = input.itemName}

\* the node behind the k-th of these positions
NthNode(k) ==
  LET p == CHOOSE q \in Positions :
             Cardinality({r \in Positions : r < q}) = k - 1
  IN input.didlXml.nodes[p].item

\* the parsed node lacks id or dc:title
Malformed(item) == "id" \notin DOMAIN item \/ "title" \notin DOMAIN item

\* C22 as stated: an empty or absent DIDL input gives the empty sequence as a
\* valid result and does not raise.
C22_Original ==
  (Parsed /\ input.didlXml.kind \in {"undefined", "empty"}) =>
    /\ pc = "returned"
    /\ result.value.v = <<>>

\* C22: an empty or absent DIDL input makes didlXmlToArray raise 'DIDL-Light
\* input is missing' without a result; the empty sequence is the result for a
\* DIDL document that has no node named itemName.
C22_MissingInputRaises ==
  /\ (Parsed /\ input.didlXml.kind \in {"undefined", "empty"}) =>
       /\ pc = "raised"
       /\ result.err = "DIDL-Light input is missing"
       /\ result.value.type = "none"
  /\ (Parsed /\ input.didlXml.kind = "document" /\ input.itemName # ""
         /\ Positions = {}) =>
       /\ pc = "returned"
       /\ result.value.v = <<>>

C22_Witness ==
  /\ op = "didlXmlToArray" /\ pc = "raised"
  /\ input.didlXml.kind = "empty"
  /\ input.itemName = "item"

\* C23: the sequence didlXmlToArray returns has one element per node named
\* itemName, in document order: none gives the empty sequence, a single node
\* a sequence of one element.
C23_OneElementPerNode ==
  (op = "didlXmlToArray" /\ pc = "returned") =>
    /\ result.value.type = "array"
    /\ Len(result.value.v) = Cardinality(Positions)
    /\ \A k \in 1..Len(result.value.v) :
         result.value.v[k].id = NthNode(k).id

C23_Witness ==
  /\ op = "didlXmlToArray" /\ pc = "returned"
  /\ Cardinality(Positions) = 1
  /\ Len(input.didlXml.nodes) = 2
  /\ Len(result.value.v) = 1

\* C24: if a node named itemName lacks id or dc:title, didlXmlToArray raises
\* 'id is missing' or 'title is missing' and returns nothing, not even the
\* well-formed items.
C24_MalformedItemRaises ==
  (Parsed /\ input.didlXml.kind = "document" /\ input.itemName # ""
     /\ \E k \in 1..Cardinality(Positions) : Malformed(NthNode(k))) =>
    /\ pc = "raised"
    /\ result.err \in {"id is missing", "title is missing"}
    /\ result.value.type = "none"

C24_Witness ==
  /\ op = "didlXmlToArray" /\ pc = "raised"
  /\ Cardinality(Positions) = 2
  /\ ~Malformed(NthNode(1))
  /\ Malformed(NthNode(2))

\* the favourites getMySonosV3 has mapped: the items at the head of its list
Favourites ==
  [k \in 1..Len(input.favourites) |-> result.value.v[k]]

\* the map over the favourites has acted
FavouritesMapped ==
  /\ op = "getMySonosV3"
  /\ pc \in {"Browse SQ:", "returned"}

\* C26 as stated: the handling mode of an item is 'stream' for a class of the
\* stream set, 'queue' for one of the queueable set, 'unsupported' for any
\* other non-empty class and the empty string for an item without class.
C26_Original ==
  FavouritesMapped =>
    \A k \in DOMAIN Favourites :
      LET item == Favourites[k]
      IN item.processingType =
           IF item.upnpClass \in UPNP_CLASSES_STREAM THEN "stream"
           ELSE IF item.upnpClass \in UPNP_CLASSES_QUEUE THEN "queue"
           ELSE IF item.upnpClass # <<>> THEN "unsupported"
           ELSE ""

\* C26: getMySonosV3 gives a favourite the handling mode 'stream' when the
\* class found in its metadata is in the stream set, 'queue' when it is in
\* the queueable set and 'unsupported' in every other case, the favourite
\* without class included.
C26_UnsupportedWithoutClass ==
  FavouritesMapped =>
    \A k \in DOMAIN Favourites :
      LET item == Favourites[k]
      IN /\ item.upnpClass \in UPNP_CLASSES_STREAM
              => item.processingType = "stream"
         /\ item.upnpClass \in UPNP_CLASSES_QUEUE
              => item.processingType = "queue"
         /\ item.upnpClass \notin UPNP_CLASSES_STREAM \cup UPNP_CLASSES_QUEUE
              => item.processingType = "unsupported"

C26_Witness ==
  /\ op = "getMySonosV3" /\ pc = "returned"
  /\ \E k \in DOMAIN Favourites :
       /\ Favourites[k].upnpClass = <<>>
       /\ Favourites[k].metadata # <<>>
       /\ Favourites[k].processingType = "unsupported"

\* the coordinator was playing or transitioning when the call began
CoordinatorWasPlaying ==
  before.transport[coordinatorIndex].state \in {"playing", "transitioning"}

\* the final play has been issued on the joiner
JoinerPlayIssued ==
  \E i \in DOMAIN calls :
    /\ calls[i].phase = "restore"
    /\ calls[i].op = "play"
    /\ calls[i].member = joinerIndex

\* C27: playJoinerNotification reads the playing state from the coordinator
\* and calls the coordinator for nothing else; media information and volume
\* are read from and written to the joiner; the captured URI of the joiner is
\* always set again without starting playback; the final play is issued on
\* the joiner exactly when the coordinator was playing or transitioning,
\* whatever the notification URI is.
C27_JoinerOnly ==
  JoinerNotifying =>
    /\ \A i \in DOMAIN calls :
         calls[i].member =
           IF calls[i].op = "getCurrentState" THEN coordinatorIndex
           ELSE joinerIndex
    /\ transport[coordinatorIndex] = before.transport[coordinatorIndex]
    /\ volume[coordinatorIndex] = before.volume[coordinatorIndex]
    /\ pc \in {"play", "returned"} =>
         /\ \E i \in DOMAIN calls :
              /\ calls[i].phase = "restore"
              /\ calls[i].op = "setAVTransportURI"
              /\ calls[i].member = joinerIndex
              /\ calls[i].ok
         /\ transport[joinerIndex].uri = before.transport[joinerIndex].uri
         /\ transport[joinerIndex].meta = before.transport[joinerIndex].meta
    /\ pc = "play" => transport[joinerIndex].state = "stopped"
    /\ JoinerPlayIssued => CoordinatorWasPlaying
    /\ (pc = "returned" /\ CoordinatorWasPlaying) => JoinerPlayIssued

C27_Witness ==
  /\ JoinerNotifying /\ pc = "returned"
  /\ Includes(options.uri, VliMarker)
  /\ before.transport[coordinatorIndex].state = "transitioning"
  /\ JoinerPlayIssued
  /\ options.volume # -1

\* the request of sendSoapToPlayer was rejected with this error
Rejected == op = "sendSoapToPlayer" /\ pc = "raised"

VolumeCalls(phase) ==
  LET OfPhase(call) ==
        call.phase = phase /\ call.op \in {"getVolume", "setVolume"}
  IN SelectSeq(calls, OfPhase)

RestoreCalls ==
  LET OfRestore(call) == call.phase = "restore"
  IN SelectSeq(calls, OfRestore)

\* the place of a call in the order of restoreGroupSnapshot
RestoreRank(call) ==
  CASE call.op = "setAVTransportURI" -> 1
    [] call.op = "selectTrack" -> 2
    [] call.op = "Seek" -> 3
    [] call.op = "setVolume" -> 2 * call.member + 2
    [] call.op = "setMuted" -> 2 * call.member + 3

\* C30: restoreGroupSnapshot calls setAVTransportURI on the coordinator
\* first, then selectTrack, then Seek, then setVolume and setMuted member by
\* member; when setAVTransportURI fails the operation raises and no further
\* call is issued.
C30_RestoreOrder ==
  Snapshotting =>
    /\ \A i, j \in DOMAIN RestoreCalls :
         i < j => RestoreRank(RestoreCalls[i]) < RestoreRank(RestoreCalls[j])
    /\ RestoreCalls # <<>> =>
         /\ RestoreCalls[1].op = "setAVTransportURI"
         /\ RestoreCalls[1].member = coordinatorIndex
         /\ ~RestoreCalls[1].ok => (pc = "raised" /\ Len(RestoreCalls) = 1)

C30_Witness ==
  /\ Snapshotting /\ pc = "returned"
  /\ members = MaxMembers
  /\ Len(RestoreCalls) = 3 + 2 * members

\* the relative position and the track duration the snapshot holds
CapturedRelTime ==
  IF Notifying THEN snapshot.positionInfo.RelTime ELSE snapshot.RelTime

CapturedTrackDuration ==
  IF Notifying THEN snapshot.positionInfo.TrackDuration
  ELSE snapshot.TrackDuration

\* the restore has come past its seek step
PastSeek ==
  \/ Notifying /\ pc \in {"play", "returned"}
  \/ Snapshotting /\ pc \in {"restore.setVolume", "restore.setMuted",
                              "returned"}

\* C31 as stated: the seek of the restore is attempted only if the captured
\* relative position is non-zero and the captured track duration is not
\* '0:00:00'; with a captured position of '0:00:00' no Seek is issued.
C31_Original ==
  Issued("restore", "Seek") # {} =>
    /\ CapturedRelTime \notin {NoDuration, ZeroDuration}
    /\ CapturedTrackDuration # ZeroDuration

\* C31: the seek of the restore is attempted exactly when a relative position
\* was captured, the position '0:00:00' included, and the captured track
\* duration is not '0:00:00'.
C31_SeekWhenCaptured ==
  /\ Issued("restore", "Seek") # {} =>
       /\ CapturedRelTime # NoDuration
       /\ CapturedTrackDuration # ZeroDuration
  /\ (PastSeek /\ CapturedRelTime # NoDuration
         /\ CapturedTrackDuration # ZeroDuration) =>
       Issued("restore", "Seek") # {}

C31_Witness ==
  /\ Snapshotting /\ pc = "returned"
  /\ CapturedRelTime = ZeroDuration
  /\ Issued("restore", "Seek") # {}

\* the devices a notification writes the override volume to
OverrideTargets ==
  IF options.volume = -1 THEN {}
  ELSE IF JoinerNotifying THEN {joinerIndex}
  ELSE IF options.sameVolume THEN 1..members
  ELSE {coordinatorIndex}

\* C32: in playGroupNotification and in playJoinerNotification the override
\* volume has been written to every targeted device before Play is issued
\* for the notification.
C32_VolumeBeforePlay ==
  (Notifying \/ JoinerNotifying) =>
    \A i \in Issued("override", "Play") :
      \A member \in OverrideTargets :
        \E j \in Succeeded("override", "setVolume") :
          j < i /\ calls[j].member = member

\* the steps of a notification before its wait
BeforeWait == {"snapshot", "override"}

\* C33: in both notification variants a failed call of the snapshot or the
\* override step ends the function with the rejection: it is the last call
\* of the history, no call of the wait or the restore step exists, and the
\* function is neither at its timer nor past it.
C33_FailureBeforeWaitEnds ==
  (Notifying \/ JoinerNotifying) =>
    \A i \in Failed :
      calls[i].phase \in BeforeWait =>
        /\ pc = "raised"
        /\ i = Len(calls)
        /\ \A j \in DOMAIN calls : calls[j].phase \in BeforeWait

\* the Play of the clip was rejected
C33_Witness ==
  /\ Notifying \/ JoinerNotifying
  /\ pc = "raised"
  /\ \E i \in Failed : calls[i].phase = "override" /\ calls[i].op = "Play"

\* the positions of both notification variants up to the timer
UpToTimer ==
  {"getCurrentState", "GetMediaInfo", "GetPositionInfo",
   "snapCoordinatorVolume", "snapMemberVolumes", "getVolume",
   "SetAVTransportURI", "setCoordinatorVolume", "setMemberVolumes", "Play",
   "setVolume", "waitPositionInfo", "setTimeout"}

\* the timer has been started with a wait
TimerSet == waitInMilliseconds # -1

\* the duration the player reported for the clip when it was asked
ReportedDurations ==
  {calls[i].vol : i \in Succeeded("wait", "GetPositionInfo")}

\* C34: the timer of both notification variants is set to the explicit
\* duration in milliseconds without automaticDuration; with it, to the
\* reported duration of the clip plus 2000 ms, or to the explicit duration
\* when no duration is reported; and calls of the restore step exist only
\* when the function has passed its timer.
C34_WaitDuration ==
  (Notifying \/ JoinerNotifying) =>
    /\ (TimerSet /\ ~options.automaticDuration) =>
         /\ waitInMilliseconds = hhmmss2msec(options.duration)
         /\ Issued("wait", "GetPositionInfo") = {}
    /\ (TimerSet /\ options.automaticDuration) =>
         /\ Cardinality(ReportedDurations) = 1
         /\ \A TrackDuration \in ReportedDurations :
              waitInMilliseconds =
                IF TrackDuration # NoDuration
                THEN hhmmss2msec(TrackDuration) + 2000
                ELSE hhmmss2msec(options.duration)
    /\ pc \notin UpToTimer \union {"raised"} => TimerSet
    /\ (\E i \in DOMAIN calls : calls[i].phase = "restore") =>
         TimerSet /\ pc \notin UpToTimer

\* the clip's reported duration differs from the explicit one and the
\* restore step has begun
C34_Witness ==
  /\ Notifying \/ JoinerNotifying
  /\ options.automaticDuration
  /\ ReportedDurations = {<<0, 1, 4>>}
  /\ waitInMilliseconds = 66000
  /\ hhmmss2msec(options.duration) = 5000
  /\ Issued("restore", "setAVTransportURI") # {}

\* the reads and writes of a member's volume, in every step
VolumeCallsTo(member) ==
  {i \in DOMAIN calls :
     calls[i].member = member /\ calls[i].op \in {"getVolume", "setVolume"}}

OtherMembers == Members \ {coordinatorIndex}

\* C35: playGroupNotification reads or writes the coordinator's volume only
\* with a volume override and another member's volume only with sameVolume,
\* writes the override to another member only with both, and touches no
\* volume with neither; with the option set the volume has been read once
\* when the notification URI is sent and rewritten once on return; and
\* every volume written in the restore step was read from that member in
\* the snapshot step.
C35_VolumesTouched ==
  Notifying =>
    /\ VolumeCallsTo(coordinatorIndex) # {} => options.volume # -1
    /\ \A member \in OtherMembers :
         /\ VolumeCallsTo(member) # {} => options.sameVolume
         /\ CallsTo("override", "setVolume", member) # {} =>
              options.volume # -1 /\ options.sameVolume
    /\ (options.volume = -1 /\ ~options.sameVolume) =>
         \A member \in Members : VolumeCallsTo(member) = {}
    /\ Issued("override", "SetAVTransportURI") # {} =>
         /\ options.volume # -1 =>
              Cardinality(CallsTo("snapshot", "getVolume",
                                  coordinatorIndex)) = 1
         /\ options.sameVolume =>
              \A member \in OtherMembers :
                Cardinality(CallsTo("snapshot", "getVolume", member)) = 1
    /\ pc = "returned" =>
         /\ options.volume # -1 =>
              Cardinality(CallsTo("restore", "setVolume",
                                  coordinatorIndex)) = 1
         /\ options.sameVolume =>
              \A member \in OtherMembers :
                Cardinality(CallsTo("restore", "setVolume", member)) = 1
         /\ (options.volume # -1 /\ options.sameVolume) =>
              \A member \in OtherMembers :
                Cardinality(CallsTo("override", "setVolume", member)) = 1
    /\ \A i \in Issued("restore", "setVolume") :
         ReadInSnapshot(calls[i].member, calls[i].vol)

\* sameVolume without an override: the other member is read and rewritten,
\* the coordinator is left alone
C35_Witness ==
  /\ Notifying /\ pc = "returned" /\ members >= 2
  /\ options.volume = -1 /\ options.sameVolume
  /\ VolumeCallsTo(coordinatorIndex) = {}
  /\ \E member \in OtherMembers :
       /\ CallsTo("snapshot", "getVolume", member) # {}
       /\ CallsTo("restore", "setVolume", member) # {}
       /\ CallsTo("override", "setVolume", member) = {}

\* the notification URI is on the coordinator and the captured one has not
\* been put back
OnNotificationURI ==
  /\ Succeeded("override", "SetAVTransportURI") # {}
  /\ Succeeded("restore", "setAVTransportURI") = {}

\* the calls awaited from the override up to the reapplication of the URI
UpToReapplication ==
  {i \in DOMAIN calls :
     \/ calls[i].phase \in {"override", "wait"}
     \/ /\ calls[i].phase = "restore"
        /\ calls[i].op \in {"setVolume", "setAVTransportURI"}}

\* C36: from the successful override of the URI until the captured URI is
\* reapplied the coordinator's transport URI is the notification URI, and
\* a call rejected in that stretch ends playGroupNotification at once: it
\* is the last call, so no restore, timer or rollback follows it.
C36_AbandonedKeepsNotificationURI ==
  (Notifying /\ OnNotificationURI) =>
    /\ transport[coordinatorIndex].uri = options.uri
    /\ \A i \in Failed \intersect UpToReapplication :
         pc = "raised" /\ i = Len(calls)

\* abandoned when the volume could not be restored
C36_Witness ==
  /\ Notifying /\ OnNotificationURI /\ pc = "raised"
  /\ \E i \in Failed : calls[i].phase = "restore" /\ calls[i].op = "setVolume"
  /\ transport[coordinatorIndex].uri # before.transport[coordinatorIndex].uri

\* the successful requests of one of the two overlapping calls
SucceededOf(call, phase, name) ==
  {i \in Succeeded(phase, name) : calls[i].call = call}

\* the second call read the media information after the first had put its
\* clip on the coordinator and before the first put the captured URI back
SecondSnapshotInside ==
  \E i \in SucceededOf(1, "override", "SetAVTransportURI"),
     j \in SucceededOf(2, "snapshot", "GetMediaInfo"),
     k \in SucceededOf(1, "restore", "setAVTransportURI") : i < j /\ j < k

\* the second call put its captured URI back after the first did
SecondRestoresLast ==
  \E k \in SucceededOf(1, "restore", "setAVTransportURI"),
     l \in SucceededOf(2, "restore", "setAVTransportURI") : k < l

BothReturned ==
  Notifying /\ suspended.call # 0 /\ pc = "returned"
    /\ suspended.pc = "returned"

\* C37: when two calls of playGroupNotification on one group overlap so
\* that the second takes its snapshot between the override and the restore
\* of the first and restores after it, and both return, the coordinator is
\* left on the clip of the first call and not on the content it had before.
C37_OverlapLeavesFirstClip ==
  (BothReturned /\ SecondSnapshotInside /\ SecondRestoresLast) =>
    /\ transport[coordinatorIndex].uri = FirstClip
    /\ transport[coordinatorIndex].uri # before.transport[coordinatorIndex].uri

\* the overlap happens and no request of either call fails
C37_Witness ==
  /\ BothReturned /\ NoFailure
  /\ SecondSnapshotInside /\ SecondRestoresLast
  /\ transport[coordinatorIndex].uri = FirstClip

\* the captured URI has been sent back to the player
ReapplicationIssued == Issued("restore", "setAVTransportURI") # {}

C39_InputOnlyAfterCheck ==
  ConstructingNode =>
    /\ nodeState.handled > 0 => nodeState.registered
    /\ nodeState.registered <=> nodeState.status = "ok:ready"
    /\ nodeState.registered =>
         pc = "constructed" /\ nodeState.check \in {"true", "discovered"}
    /\ nodeState.check \in {"false", "rejected"} =>
         ~nodeState.registered /\ nodeState.handled = 0
    /\ pc # "constructed" => nodeState.handled = 0

\* one message came while the check was running and was dropped, one came
\* after it and was processed
C39_Witness ==
  /\ ConstructingNode /\ nodeState.registered
  /\ nodeState.received = 2 /\ nodeState.handled = 1

\* the volume mysonosStreamItem is asked to set
VolumeWanted == input.hasVolume

====
